---- MODULE Spec2Model ----
(***************************************************************************)
(* Model of the tokenizer stage of the Indian-market pipeline              *)
(* (indian_market/scripts/tokenize_data.py): KronosDataTokenizer.fit and   *)
(* .transform, and create_sequences_for_training.                          *)
(*                                                                         *)
(* A DataFrame is a sequence of rows; a row is a record                    *)
(*   [symbol, timestamp, feat]  with feat a function column name -> value. *)
(* Feature values are integers; bin edges, which numpy computes by linear  *)
(* interpolation, are kept exactly as integers scaled by n_bins.           *)
(* Within one symbol the timestamps are distinct (one bar per period), so  *)
(* that sort_values('timestamp') has one result.                           *)
(***************************************************************************)
EXTENDS Integers, Sequences, FiniteSets, TLC

VARIABLES
    data,               \* the DataFrame handed to fit / transform / create_sequences
    n_bins,             \* KronosDataTokenizer.n_bins
    feature_columns,    \* list of feature columns handed to the three functions
    sequence_length,    \* sequence_length argument
    prediction_length,  \* prediction_length argument
    stride,             \* stride argument
    discretizers,       \* KronosDataTokenizer.discretizers: column -> fitted discretizer
    last_transform,     \* the last transform call: what it read and returned; calls so far
    training,           \* what create_sequences_for_training returned, or NotRun
    vocab_size,         \* KronosDataTokenizer.vocab_size
    store,              \* the tokenizer file, and the tokenizer loaded from it
    raw_file,           \* the raw CSV file that the clean/normalize stage reads
    cleaner,            \* the clean/normalize stage: position, data, bounds, files written
    cli,                \* one run of the prediction CLI (kronos_predict.py main)
    evaluator,          \* KronosPredictor and one call of evaluate_model
    downloader,         \* one run of the download stage (download_nse_data.py main)
    tokenize_main,      \* one run of the tokenization stage (tokenize_data.py main)
    tuner               \* one call of KronosFineTuner.fine_tune

\* The variables outside the tokenizer object and its inputs.
outside == <<store, raw_file, cleaner>>

\* The other stages of the pipeline.
stages == <<cli, evaluator, downloader, tokenize_main, tuner>>

vars == <<data, n_bins, feature_columns, sequence_length, prediction_length,
          stride, discretizers, last_transform, training, vocab_size, outside, stages>>

----------------------------------------------------------------------------
(* Bounds of the model. *)

\* rows per symbol in the generated multi-symbol datasets
MaxRows == 5
\* largest sequence_length / prediction_length / stride that is tried
MaxLen == 2
\* largest raw feature value in the freely valued datasets
MaxVal == 2
\* rows of the dataset that is tokenized with the configuration of main()
DefaultRows == 4

----------------------------------------------------------------------------
(* Generic helpers. *)

Range(f) == {f[i] : i \in DOMAIN f}

Min2(a, b) == IF a < b THEN a ELSE b

RECURSIVE Flatten(_)
Flatten(ss) == IF ss = << >> THEN << >> ELSE Head(ss) \o Flatten(Tail(ss))

RECURSIVE Gcd(_, _)
Gcd(a, b) == IF b = 0 THEN a ELSE Gcd(b, a % b)

\* Python's range(start, stop, step) for step >= 1, as a sequence.
PyRange(start, stop, step) ==
    LET n == IF stop > start THEN (stop - start + step - 1) \div step ELSE 0
    IN  [k \in 1..n |-> start + (k - 1) * step]

\* Python's s[a:b] on a 0-based list: elements a .. b-1, clipped to the list.
PySlice(s, a, b) ==
    LET hi == Min2(b, Len(s))
    IN  IF hi <= a THEN << >> ELSE [k \in 1..(hi - a) |-> s[a + k]]

----------------------------------------------------------------------------
(* pandas operations used by transform and create_sequences_for_training. *)

\* data['symbol'].unique(): the symbols in order of first appearance.
UniqueSymbols(df) ==
    LET first == {i \in 1..Len(df) : \A j \in 1..(i - 1) : df[j].symbol # df[i].symbol}
        idx == [k \in 1..Cardinality(first) |->
                  CHOOSE i \in first : Cardinality({j \in first : j < i}) = k - 1]
    IN  [k \in 1..Cardinality(first) |-> df[idx[k]].symbol]

\* Mutant of FilterSymbol: the symbol mask is not applied.
FilterSymbolNone(df, symbol) == df

\* data[data['symbol'] == symbol]: the rows of one symbol, in DataFrame order.
FilterSymbol(df, symbol) == SelectSeq(df, LAMBDA r : r.symbol = symbol)

\* Mutant of SortByTimestamp: the rows stay in DataFrame order.
SortByTimestampNone(df) == df

\* df.sort_values('timestamp'): ascending by timestamp. The rows of one symbol
\* have distinct timestamps, so the order of the result is determined.
SortByTimestamp(df) ==
    SortSeq(df, LAMBDA r, q : r.timestamp < q.timestamp)

\* symbol_data[feature_columns].values: one tuple of feature values per row.
FeatureMatrix(df, cols) ==
    [i \in 1..Len(df) |-> [j \in 1..Len(cols) |-> df[i].feat[cols[j]]]]

----------------------------------------------------------------------------
(* create_sequences_for_training *)

\* The window starts of one symbol: range(0, len(features) - L - P, stride).
WindowStarts(nrows, L, P, S) == PyRange(0, nrows - L - P, S)

\* Mutant of SymbolWindows: the target starts on the last row of the input.
SymbolWindowsOverlap(features, L, P, S) ==
    LET starts == WindowStarts(Len(features), L, P, S)
    IN  [k \in 1..Len(starts) |->
            [input  |-> PySlice(features, starts[k], starts[k] + L),
             target |-> PySlice(features, starts[k] + L - 1, starts[k] + L - 1 + P)]]

\* The (input, target) pairs of one symbol's feature matrix.
SymbolWindows(features, L, P, S) ==
    LET starts == WindowStarts(Len(features), L, P, S)
    IN  [k \in 1..Len(starts) |->
            [input  |-> PySlice(features, starts[k], starts[k] + L),
             target |-> PySlice(features, starts[k] + L, starts[k] + L + P)]]

create_sequences_for_training(df, cols, L, P, S) ==
    LET symbols == UniqueSymbols(df)
        perSymbol == [k \in 1..Len(symbols) |->
                        SymbolWindows(
                            FeatureMatrix(SortByTimestamp(FilterSymbol(df, symbols[k])), cols),
                            L, P, S)]
        pairs == Flatten(perSymbol)
    IN  [input_sequences  |-> [k \in 1..Len(pairs) |-> pairs[k].input],
         target_sequences |-> [k \in 1..Len(pairs) |-> pairs[k].target]]

----------------------------------------------------------------------------
(* numpy float64 values that are non-negative whole numbers.               *)
(* KBinsDiscretizer.transform returns a float64 array, so the offset bin   *)
(* codes and the composite token built from them are float64: every        *)
(* product and sum is rounded to a 53-bit significand (round half to       *)
(* even). A value is kept as its little-endian sequence of limbs in base   *)
(* LimbBase, without leading zero limbs; zero is the empty sequence.       *)

LimbBase == 2^15
\* bits in the significand of a float64
MantissaBits == 53

RECURSIVE BigOf(_)
BigOf(n) == IF n = 0 THEN << >> ELSE <<n % LimbBase>> \o BigOf(n \div LimbBase)

RECURSIVE BigMulCarry(_, _, _)
BigMulCarry(b, m, c) ==
    IF b = << >> THEN BigOf(c)
    ELSE LET t == Head(b) * m + c
         IN  <<t % LimbBase>> \o BigMulCarry(Tail(b), m, t \div LimbBase)

\* b * m and b + a, exactly, for a small m >= 1 and a small a >= 0.
BigMul(b, m) == BigMulCarry(b, m, 0)

RECURSIVE BigAdd(_, _)
BigAdd(b, a) ==
    IF a = 0 THEN b
    ELSE IF b = << >> THEN BigOf(a)
    ELSE LET t == Head(b) + a
         IN  <<t % LimbBase>> \o BigAdd(Tail(b), t \div LimbBase)

RECURSIVE SmallBitLen(_)
SmallBitLen(n) == IF n = 0 THEN 0 ELSE 1 + SmallBitLen(n \div 2)

BigBitLen(b) == IF b = << >> THEN 0
                ELSE 15 * (Len(b) - 1) + SmallBitLen(b[Len(b)])

\* b div 2^k for k below the limb width, given whole limbs already dropped.
BigShiftRightBits(b, k) ==
    LET n == Len(b)
        q == [i \in 1..n |->
                (b[i] \div 2^k) + (IF i < n THEN (b[i + 1] % 2^k) * 2^(15 - k) ELSE 0)]
    IN  IF n = 0 THEN << >>
        ELSE IF q[n] = 0 THEN SubSeq(q, 1, n - 1) ELSE q

\* The float64 nearest to the whole number b (ties to the even significand):
\* the low `drop` bits are cut off; guard is the highest of them, sticky says
\* whether any lower one is set.
F64Round(b) ==
    LET drop == BigBitLen(b) - MantissaBits
    IN  IF drop <= 0 THEN b
        ELSE LET limbs == drop \div 15
                 bits == drop % 15
                 rest == SubSeq(b, limbs + 1, Len(b))
                 q == BigShiftRightBits(rest, bits)
                 low == rest[1] % 2^bits
                 lowLimbsSet == \E i \in 1..(limbs - 1) : b[i] # 0
                 guard == IF bits > 0 THEN low \div 2^(bits - 1)
                          ELSE b[limbs] \div 2^14
                 sticky == IF bits > 0
                           THEN low % 2^(bits - 1) # 0 \/ (limbs > 0 /\ b[limbs] # 0)
                                \/ lowLimbsSet
                           ELSE b[limbs] % 2^14 # 0 \/ lowLimbsSet
                 odd == q[1] % 2 = 1
                 up == guard = 1 /\ (sticky \/ odd)
             IN  [i \in 1..limbs |-> 0]
                 \o BigMul(IF up THEN BigAdd(q, 1) ELSE q, 2^bits)

\* token * radix + feat in float64 arithmetic: the product is rounded, then the sum.
F64MulAdd(token, radix, feat) ==
    F64Round(BigAdd(F64Round(BigMul(token, radix)), feat))

\* (b div m, b mod m) for a small m >= 1.
RECURSIVE BigDivMod(_, _)
BigDivMod(b, m) ==
    IF b = << >> THEN [q |-> << >>, r |-> 0]
    ELSE LET hi == BigDivMod(Tail(b), m)
             cur == hi.r * LimbBase + Head(b)
             d == cur \div m
         IN  [q |-> IF hi.q = << >> /\ d = 0 THEN << >> ELSE <<d>> \o hi.q,
              r |-> cur % m]

----------------------------------------------------------------------------
(* KronosDataTokenizer *)

\* self.special_tokens
special_tokens == [pad |-> 0, unk |-> 1, cls |-> 2, sep |-> 3, mask |-> 4]

\* len(self.special_tokens)
NumSpecial == Cardinality(DOMAIN special_tokens)

\* self.n_bins + len(self.special_tokens)
Radix(nb) == nb + NumSpecial

\* The values of a column in ascending order (np.percentile sorts them).
SortValues(col) == SortSeq(col, LAMBDA v, w : v < w)

\* np.percentile(column, np.linspace(0, 100, n_bins + 1)), linear interpolation,
\* each edge multiplied by nb: edge k lies at virtual index k * (N - 1) / nb.
QuantileEdges(col, nb) ==
    LET a == SortValues(col)
        n == Len(a)
    IN  [e \in 1..(nb + 1) |->
            LET pos == (e - 1) * (n - 1)
                lo == pos \div nb
                fr == pos % nb
            IN  IF fr = 0 THEN a[lo + 1] * nb
                ELSE a[lo + 1] * nb + fr * (a[lo + 2] - a[lo + 1])]

\* KBinsDiscretizer(n_bins, encode='ordinal', strategy='quantile').fit(column):
\* a constant column gets the single bin (-inf, inf); otherwise the quantile
\* edges, without every edge that does not exceed its predecessor by 1e-8.
FitDiscretizer(col, nb) ==
    LET edges == QuantileEdges(col, nb)
        keep == SelectSeq([e \in 1..(nb + 1) |-> e],
                          LAMBDA e : e = 1 \/ edges[e] > edges[e - 1])
    IN  IF edges[1] = edges[nb + 1]
        THEN [constant |-> TRUE, bin_edges |-> << >>]
        ELSE [constant |-> FALSE, bin_edges |-> [k \in 1..Len(keep) |-> edges[keep[k]]]]

\* Mutant of BinIndex: the last edge is searched too, the result is not clipped.
BinIndexUnclipped(d, nb, x) ==
    IF d.constant THEN 0
    ELSE Cardinality({e \in 2..Len(d.bin_edges) : d.bin_edges[e] <= x * nb})

\* Mutant of BinIndex: the last edge is searched too and an index past the last
\* bin is brought back into range by the remainder, so it wraps around to bin 0.
BinIndexWrapped(d, nb, x) ==
    IF d.constant THEN 0
    ELSE Cardinality({e \in 2..Len(d.bin_edges) : d.bin_edges[e] <= x * nb})
             % (Len(d.bin_edges) - 1)

\* discretizer.transform(value): np.searchsorted(bin_edges[1:-1], value, side='right'),
\* the number of interior edges that are <= value.
BinIndex(d, nb, x) ==
    IF d.constant THEN 0
    ELSE Cardinality({e \in 2..(Len(d.bin_edges) - 1) : d.bin_edges[e] <= x * nb})

\* discretizer.transform of the value num / den (den >= 1): as BinIndex, for a
\* value that is not a whole number.
BinIndexRatio(d, nb, v) ==
    IF d.constant THEN 0
    ELSE Cardinality({e \in 2..(Len(d.bin_edges) - 1) :
                         d.bin_edges[e] * v.den <= v.num * nb})

\* Mutant of OffsetCode: the special-token offset is not added.
OffsetCodeNone(d, nb, x) == BinIndex(d, nb, x)

\* tokens = discretizer.transform(col_data).flatten() + len(self.special_tokens)
OffsetCode(d, nb, x) == BinIndex(d, nb, x) + NumSpecial

\* The columns of the list that have a discretizer, in list order.
FittedColumns(cols, discs) == SelectSeq(cols, LAMBDA c : c \in DOMAIN discs)

\* One composite token: token = token * radix + feat_tokens[i], over the features.
RECURSIVE CombineCodes(_, _, _)
CombineCodes(token, codes, radix) ==
    IF codes = << >> \/ Len(token) < 0 THEN token
    ELSE CombineCodes(F64MulAdd(token, radix, Head(codes)), Tail(codes), radix)

\* The composite token of one row over the fitted columns.
RowToken(row, cols, discs, nb) ==
    CombineCodes(<< >>,
                 [j \in 1..Len(cols) |-> OffsetCode(discs[cols[j]], nb, row.feat[cols[j]])],
                 Radix(nb))

\* Mutant of SplitSequences: the trailing partial chunk is kept.
SplitSequencesPartial(tokens, L) ==
    LET starts == PyRange(0, Len(tokens), L)
    IN  [k \in 1..Len(starts) |-> PySlice(tokens, starts[k], starts[k] + L)]

\* combined_tokens[i:i + L] for i in range(0, len, L), full chunks only.
SplitSequences(tokens, L) ==
    LET starts == PyRange(0, Len(tokens), L)
        chunks == [k \in 1..Len(starts) |-> PySlice(tokens, starts[k], starts[k] + L)]
    IN  SelectSeq(chunks, LAMBDA c : Len(c) = L)

\* KronosDataTokenizer.transform: the token sequences, or IndexError when a symbol
\* is reached with no fitted column in the list (feature_tokens[0] does not exist).
transform(df, cols, L, discs, nb) ==
    LET symbols == UniqueSymbols(df)
        fitted == FittedColumns(cols, discs)
        perSymbol == [k \in 1..Len(symbols) |->
            LET symbol_data == SortByTimestamp(FilterSymbol(df, symbols[k]))
                combined == [i \in 1..Len(symbol_data) |->
                                RowToken(symbol_data[i], fitted, discs, nb)]
            IN  SplitSequences(combined, L)]
    IN  IF symbols # << >> /\ fitted = << >>
        THEN [error |-> "IndexError", token_sequences |-> << >>]
        ELSE [error |-> "none", token_sequences |-> Flatten(perSymbol)]

\* KronosDataTokenizer.fit: one discretizer per listed column, fitted on that
\* column of the rows given; discretizers of other columns stay.
fit(df, cols, discs, nb) ==
    [c \in (DOMAIN discs) \cup Range(cols) |->
        IF c \in Range(cols)
        THEN FitDiscretizer([i \in 1..Len(df) |-> df[i].feat[c]], nb)
        ELSE discs[c]]

----------------------------------------------------------------------------
(* Input datasets. *)

SymbolList == <<"A", "B">>

SymbolIndex(s) == CHOOSE k \in 1..Len(SymbolList) : SymbolList[k] = s

\* A synthetic series: closes differ between all rows and interleave between
\* the symbols; each symbol trades at its own volume level.
SeriesRow(s, t) ==
    [symbol |-> s, timestamp |-> t,
     feat |-> [c \in {"close", "volume"} |->
                 IF c = "close" THEN 2 * t + SymbolIndex(s) - 1
                 ELSE SymbolIndex(s) - 1]]

\* The combined file the download stage writes: ka rows of A and kb rows of B
\* sorted by (timestamp, symbol).
CombinedRows(ka, kb) ==
    LET n == ka + kb
        both == Min2(ka, kb)
    IN  [i \in 1..n |->
            IF i <= 2 * both
            THEN SeriesRow(SymbolList[2 - (i % 2)], (i + 1) \div 2)
            ELSE SeriesRow(IF ka > kb THEN "A" ELSE "B", i - both)]

\* The rows of df in another order: position i holds row ((i-1) * m + c) mod n.
Reorder(df, m, c) ==
    LET n == Len(df)
    IN  [i \in 1..n |-> df[(((i - 1) * m + c) % n) + 1]]

\* The row orders tried for n rows: file order (m = 1), reversed (m = n - 1) and
\* one strided order, each also rotated by one row.
RowOrders(n) ==
    IF n = 0 THEN {<<1, 0>>}
    ELSE LET coprime == {m \in 1..n : Gcd(m, n) = 1}
             strided == {m \in coprime : 1 < m /\ \A q \in coprime : 1 < q => m <= q}
         IN  ((({1, n - 1} \cup strided) \cap coprime) \X (0..Min2(1, n - 1)))

\* Rows of one symbol at timestamps 1..n with the given feature values.
ValuedRows(vals) ==
    [i \in 1..Len(vals) |->
        [symbol |-> "A", timestamp |-> i,
         feat |-> [c \in {"close", "volume"} |->
                     IF c = "close" THEN vals[i][1] ELSE vals[i][2]]]]

NoTransform == [calls |-> 0, discretizers |-> << >>,
                result |-> [error |-> "none", token_sequences |-> << >>]]

NotRun == [ran |-> FALSE, input_sequences |-> << >>, target_sequences |-> << >>]

\* KronosDataTokenizer(n_bins, vocab_size): the attributes __init__ sets.
NewTokenizer(nb, vs) ==
    [n_bins |-> nb, vocab_size |-> vs, discretizers |-> << >>,
     special_tokens |-> special_tokens]

\* No tokenizer file and no tokenizer loaded from one. file is the pickled
\* content; saved remembers the tokenizer the file was written from, origin the
\* one whose file was loaded; calls and result belong to transform calls on the
\* loaded tokenizer.
NoStore ==
    [exists |-> FALSE, file |-> << >>, saved |-> NewTokenizer(0, 0),
     is_loaded |-> FALSE, loaded |-> NewTokenizer(0, 0), origin |-> NewTokenizer(0, 0),
     calls |-> 0, result |-> [error |-> "none", token_sequences |-> << >>]]

\* The clean/normalize stage before main() runs.
CleanerStart ==
    [pc |-> "start", rows |-> << >>, bounds |-> << >>, scalers |-> << >>,
     errors |-> << >>, written |-> {}]

\* A stage that is not run.
Idle == [pc |-> "idle"]

StagesIdle ==
    /\ cli = Idle
    /\ evaluator = Idle
    /\ downloader = Idle
    /\ tokenize_main = Idle
    /\ tuner = Idle

OutsideIdle ==
    /\ store = NoStore
    /\ raw_file = [readable |-> FALSE, rows |-> << >>]
    /\ cleaner = CleanerStart
    /\ StagesIdle

\* A fresh tokenizer and nothing computed yet.
Fresh ==
    /\ discretizers = << >>
    /\ last_transform = NoTransform
    /\ training = NotRun
    /\ OutsideIdle

\* KronosDataTokenizer(..., vocab_size=10000) in main(); also the default.
MainVocabSize == 10000

\* Two symbols, rows in several orders, every window geometry up to MaxLen.
InitOrders ==
    /\ \E ka \in 0..MaxRows, kb \in 0..MaxRows :
         \E o \in RowOrders(ka + kb) :
            data = Reorder(CombinedRows(ka, kb), o[1], o[2])
    /\ n_bins = 2
    /\ feature_columns = <<"close", "volume">>
    /\ sequence_length \in 1..MaxLen
    /\ prediction_length \in 1..MaxLen
    /\ stride \in 1..MaxLen
    /\ vocab_size = MainVocabSize
    /\ Fresh

\* One symbol, up to three rows, every close up to MaxVal with every volume 0 or 1.
InitValues ==
    /\ \E n \in 1..3 :
         \E vals \in [1..n -> (0..MaxVal) \X (0..1)] : data = ValuedRows(vals)
    /\ n_bins \in {2, 3}
    /\ feature_columns = <<"close", "volume">>
    /\ sequence_length = 1
    /\ prediction_length = 1
    /\ stride = 1
    /\ vocab_size = MainVocabSize
    /\ Fresh

\* The arguments main() passes to create_sequences_for_training.
MainSequenceLength == 512
MainPredictionLength == 10
MainStride == 256

\* The end-to-end scenario: 600 rows of one symbol, in several row orders, cut
\* with the arguments of main().
InitScenario ==
    /\ \E o \in RowOrders(600) :
         data = Reorder([t \in 1..600 |-> SeriesRow("A", t)], o[1], o[2])
    /\ n_bins = 2
    /\ feature_columns = <<"close", "volume">>
    /\ sequence_length = MainSequenceLength
    /\ prediction_length = MainPredictionLength
    /\ stride = MainStride
    /\ vocab_size = MainVocabSize
    /\ Fresh

\* KronosDataTokenizer(n_bins=1000, ...) and the feature columns of main().
MainBins == 1000
MainFeatureColumns ==
    <<"open", "high", "low", "close", "volume",
      "sma_5", "sma_20", "ema_12", "ema_26", "rsi",
      "macd", "macd_signal", "macd_histogram",
      "bb_middle", "bb_upper", "bb_lower">>

ColumnIndex(c) == CHOOSE j \in 1..Len(MainFeatureColumns) : MainFeatureColumns[j] = c

\* A row with all columns of main(): the first two bars agree in every column
\* but the last one, later bars differ from them in every column.
IndicatorRow(t) ==
    [symbol |-> "A", timestamp |-> t,
     feat |-> [c \in Range(MainFeatureColumns) |->
                 IF ColumnIndex(c) < Len(MainFeatureColumns)
                 THEN 100 + ColumnIndex(c) + (IF t > 2 THEN 10 * (t - 2) ELSE 0)
                 ELSE 100 + ColumnIndex(c) + 10 * t]]

\* The tokenizer as main() configures it, on a small single-symbol dataset.
InitDefault ==
    /\ \E o \in RowOrders(DefaultRows) :
         data = Reorder([t \in 1..DefaultRows |-> IndicatorRow(t)], o[1], o[2])
    /\ n_bins = MainBins
    /\ feature_columns = MainFeatureColumns
    /\ sequence_length \in 1..MaxLen
    /\ prediction_length = 1
    /\ stride = 1
    /\ vocab_size = MainVocabSize
    /\ Fresh

\* Tokenizers with the vocabulary size of main() or one that fits the codes of a
\* single feature, on one symbol with up to two rows.
InitPersist ==
    /\ \E n \in 1..2 :
         \E vals \in [1..n -> (0..MaxVal) \X (0..1)] : data = ValuedRows(vals)
    /\ n_bins \in {2, 3}
    /\ feature_columns = <<"close", "volume">>
    /\ sequence_length = 1
    /\ prediction_length = 1
    /\ stride = 1
    /\ vocab_size \in {MainVocabSize, Radix(n_bins)}
    /\ Fresh

Init == InitOrders \/ InitValues

----------------------------------------------------------------------------
(* Operations. *)

\* The rows up to a timestamp: the history a tokenizer is fitted on.
History(df, cutoff) == SelectSeq(df, LAMBDA r : r.timestamp <= cutoff)

LastTimestamp(df) ==
    CHOOSE t \in {df[i].timestamp : i \in 1..Len(df)} :
        \A i \in 1..Len(df) : df[i].timestamp <= t

\* tokenizer.fit(rows, cols): on the whole DataFrame, as main() does, or on its
\* history before the last timestamp; with the whole column list or, for the
\* first fit of a tokenizer, only its first column. fit raises on a DataFrame
\* without rows and changes nothing then.
Fit ==
    /\ data # << >>
    /\ \E cutoff \in {LastTimestamp(data), LastTimestamp(data) - 1},
          ncols \in {1, Len(feature_columns)} :
         /\ History(data, cutoff) # << >>
         /\ ncols < Len(feature_columns) =>
                discretizers = << >> /\ cutoff = LastTimestamp(data)
         /\ discretizers' = fit(History(data, cutoff),
                                SubSeq(feature_columns, 1, ncols),
                                discretizers, n_bins)
    /\ UNCHANGED <<stages, outside, vocab_size, data, n_bins, feature_columns, sequence_length,
                   prediction_length, stride, last_transform, training>>

\* tokenizer.transform(data, feature_columns, sequence_length). Recorded are the
\* discretizers the call read, what it returned, and whether it was the first
\* call or a later one (calls counts 0, 1, 2 = two or more).
Transform ==
    /\ last_transform' =
          [calls |-> Min2(last_transform.calls + 1, 2),
           discretizers |-> discretizers,
           result |-> transform(data, feature_columns, sequence_length,
                                discretizers, n_bins)]
    /\ UNCHANGED <<stages, outside, vocab_size, data, n_bins, feature_columns, sequence_length,
                   prediction_length, stride, discretizers, training>>

\* create_sequences_for_training(data, feature_columns, L, P, S)
CreateSequences ==
    /\ training' =
          [ran |-> TRUE] @@
          create_sequences_for_training(data, feature_columns, sequence_length,
                                        prediction_length, stride)
    /\ UNCHANGED <<stages, outside, vocab_size, data, n_bins, feature_columns, sequence_length,
                   prediction_length, stride, discretizers, last_transform>>

Next == Fit \/ Transform \/ CreateSequences

\* pickle.dump of a dict: its items, in insertion order.
PickleDict(keys, d) == [k \in 1..Len(keys) |-> <<keys[k], d[keys[k]]>>]

\* pickle.load of what PickleDict wrote: the dict with those items.
UnpickleDict(blob) ==
    [key \in {blob[k][1] : k \in 1..Len(blob)} |->
        blob[CHOOSE k \in 1..Len(blob) : blob[k][1] = key][2]]

\* The tokenizer object as it stands.
TokenizerNow ==
    [n_bins |-> n_bins, vocab_size |-> vocab_size, discretizers |-> discretizers,
     special_tokens |-> special_tokens]

\* The keys of tokenizer_data in save().
SaveKeys == <<"n_bins", "vocab_size", "discretizers", "special_tokens">>

\* Mutant of LoadTokenizer: the discretizers of the file are not put into the
\* new tokenizer.
LoadTokenizerUnfitted(blob) ==
    LET tokenizer_data == UnpickleDict(blob)
    IN  [NewTokenizer(tokenizer_data["n_bins"], tokenizer_data["vocab_size"])
            EXCEPT !.special_tokens = tokenizer_data["special_tokens"]]

\* KronosDataTokenizer.load: a new tokenizer from the file's n_bins and
\* vocab_size, then its discretizers and special tokens.
LoadTokenizer(blob) ==
    LET tokenizer_data == UnpickleDict(blob)
    IN  [NewTokenizer(tokenizer_data["n_bins"], tokenizer_data["vocab_size"])
            EXCEPT !.discretizers = tokenizer_data["discretizers"],
                   !.special_tokens = tokenizer_data["special_tokens"]]

\* tokenizer.save(filepath)
Save ==
    /\ store' = [store EXCEPT !.exists = TRUE,
                              !.file = PickleDict(SaveKeys, TokenizerNow),
                              !.saved = TokenizerNow]
    /\ UNCHANGED <<stages, raw_file, cleaner, vocab_size, data, n_bins, feature_columns,
                   sequence_length, prediction_length, stride, discretizers,
                   last_transform, training>>

\* KronosDataTokenizer.load(filepath); open() raises when there is no file.
Load ==
    /\ store.exists
    /\ store' = [store EXCEPT !.is_loaded = TRUE,
                              !.loaded = LoadTokenizer(store.file),
                              !.origin = store.saved,
                              !.calls = 0,
                              !.result = NoStore.result]
    /\ UNCHANGED <<stages, raw_file, cleaner, vocab_size, data, n_bins, feature_columns,
                   sequence_length, prediction_length, stride, discretizers,
                   last_transform, training>>

\* transform(data, feature_columns, sequence_length) on the loaded tokenizer.
TransformLoaded ==
    /\ store.is_loaded
    /\ store' = [store EXCEPT !.calls = 1,
                              !.result = transform(data, feature_columns, sequence_length,
                                                   store.loaded.discretizers,
                                                   store.loaded.n_bins)]
    /\ UNCHANGED <<stages, raw_file, cleaner, vocab_size, data, n_bins, feature_columns,
                   sequence_length, prediction_length, stride, discretizers,
                   last_transform, training>>

NextPersist == Fit \/ Save \/ Load \/ TransformLoaded

SpecPersist == InitPersist /\ [][NextPersist]_vars

SpecScenario == InitScenario /\ [][Next]_vars

SpecDefault == InitDefault /\ [][Next]_vars

Spec == Init /\ [][Next]_vars

----------------------------------------------------------------------------
(* The clean/normalize stage (clean_normalize_data.py).                    *)
(* A raw row is [symbol, timestamp, feat, has_nan]: feat gives open, high, *)
(* low, close and volume; has_nan says that some cell of the row is NaN.   *)
(* Quantiles are kept exactly, multiplied by 4, and outlier bounds         *)
(* multiplied by 8.                                                        *)

\* rows in the generated raw files
MaxRawRows == 4

PriceColumns == <<"open", "high", "low", "close">>

\* data.dropna()
DropNa(df) == SelectSeq(df, LAMBDA r : ~r.has_nan)

\* 4 * Series.quantile(q / 4) of a non-empty column, linear interpolation: the
\* virtual index is (q / 4) * (n - 1).
Quantile4(col, q) ==
    LET a == SortValues(col)
        pos == q * (Len(a) - 1)
        lo == pos \div 4
        fr == pos % 4
    IN  IF fr = 0 THEN 4 * a[lo + 1]
        ELSE 4 * a[lo + 1] + fr * (a[lo + 2] - a[lo + 1])

\* 8 * (lower_bound, upper_bound) for Q1 - k * IQR and Q3 + k * IQR with
\* k = k2 / 2; for volume the lower bound is max(0, lower_bound_vol). The
\* quantiles of a column without rows are NaN, and so are the bounds.
OutlierBounds(col, k2, floor_at_zero) ==
    IF col = << >> THEN [nan |-> TRUE, lo |-> 0, hi |-> 0]
    ELSE LET Q1 == Quantile4(col, 1)
             Q3 == Quantile4(col, 3)
             IQR == Q3 - Q1
             lower == 2 * Q1 - k2 * IQR
         IN  [nan |-> FALSE,
              lo |-> IF floor_at_zero /\ lower < 0 THEN 0 ELSE lower,
              hi |-> 2 * Q3 + k2 * IQR]

\* The bounds of a column: 1.5 * IQR for the price columns, 3 * IQR for volume.
ColumnBounds(symbol_data, c) ==
    LET col == [i \in 1..Len(symbol_data) |-> symbol_data[i].feat[c]]
    IN  IF c = "volume" THEN OutlierBounds(col, 6, TRUE)
        ELSE OutlierBounds(col, 3, FALSE)

\* Mutant of KeepWithin: only the upper bound is applied.
KeepBelow(symbol_data, c, b) ==
    SelectSeq(symbol_data, LAMBDA r : ~b.nan /\ 8 * r.feat[c] <= b.hi)

\* symbol_data[(symbol_data[col] >= lower_bound) & (symbol_data[col] <= upper_bound)]
KeepWithin(symbol_data, c, b) ==
    SelectSeq(symbol_data,
              LAMBDA r : ~b.nan /\ 8 * r.feat[c] >= b.lo /\ 8 * r.feat[c] <= b.hi)

\* The filters of one symbol, column after column: each column's bounds come
\* from the rows that the earlier filters left.
RECURSIVE CleanColumns(_, _, _)
CleanColumns(symbol_data, cols, log) ==
    IF cols = << >> THEN [rows |-> symbol_data, bounds |-> log]
    ELSE LET b == ColumnBounds(symbol_data, Head(cols))
         IN  CleanColumns(KeepWithin(symbol_data, Head(cols), b), Tail(cols),
                          Append(log, [column |-> Head(cols), bounds |-> b]))

\* clean_data: missing rows dropped, then every symbol filtered; None when
\* the list of per-symbol results is empty. bounds lists, per symbol, the
\* bounds that were applied.
clean_data(df) ==
    LET present == DropNa(df)
        symbols == UniqueSymbols(present)
        cleaned_data == [k \in 1..Len(symbols) |->
                            CleanColumns(FilterSymbol(present, symbols[k]),
                                         PriceColumns \o <<"volume">>, << >>)]
    IN  [none |-> cleaned_data = << >>,
         rows |-> Flatten([k \in 1..Len(symbols) |-> cleaned_data[k].rows]),
         bounds |-> [k \in 1..Len(symbols) |->
                       [symbol |-> symbols[k], columns |-> cleaned_data[k].bounds]]]

\* A raw bar at timestamp t: an ordinary bar, a bar with a far higher open, a
\* far lower close, a far higher volume, a negative volume, or an empty cell.
RowKinds == {"plain", "spike_open", "dip_close", "big_volume", "neg_volume", "missing"}

RawRow(s, t, kind) ==
    [symbol |-> s, timestamp |-> t, has_nan |-> (kind = "missing"),
     feat |-> [c \in Range(PriceColumns) \cup {"volume"} |->
         CASE c = "open"   -> IF kind = "spike_open" THEN 200 ELSE 100 + t
           [] c = "high"   -> IF kind = "spike_open" THEN 200 ELSE 102 + t
           [] c = "low"    -> IF kind = "dip_close" THEN 1 ELSE 99 + t
           [] c = "close"  -> IF kind = "dip_close" THEN 1 ELSE 101 + t
           [] c = "volume" -> IF kind = "big_volume" THEN 1000
                              ELSE IF kind = "neg_volume" THEN -1 ELSE 50 + t]]

\* A file that cannot be read, or a file with up to MaxRawRows rows: all of one
\* symbol, or the last one of a second symbol.
InitClean ==
    /\ \/ raw_file = [readable |-> FALSE, rows |-> << >>]
       \/ \E n \in 0..MaxRawRows :
            \E kinds \in [1..n -> RowKinds], nb \in 0..Min2(1, n) :
               raw_file = [readable |-> TRUE,
                           rows |-> [i \in 1..n |->
                                       RawRow(IF i > n - nb THEN "B" ELSE "A",
                                              i, kinds[i])]]
    /\ cleaner = CleanerStart
    /\ StagesIdle
    /\ store = NoStore
    /\ data = << >>
    /\ n_bins = MainBins
    /\ vocab_size = MainVocabSize
    /\ feature_columns = MainFeatureColumns
    /\ sequence_length = MainSequenceLength
    /\ prediction_length = MainPredictionLength
    /\ stride = MainStride
    /\ discretizers = << >>
    /\ last_transform = NoTransform
    /\ training = NotRun

tokenizer_vars == <<data, n_bins, feature_columns, sequence_length, prediction_length,
                    stride, discretizers, last_transform, training, vocab_size, store>>

\* main(): data = load_raw_data(input_file); None ends the run.
LoadRaw ==
    /\ cleaner.pc = "start"
    /\ cleaner' = IF raw_file.readable
                  THEN [cleaner EXCEPT !.pc = "loaded", !.rows = raw_file.rows]
                  ELSE [cleaner EXCEPT !.pc = "aborted",
                                       !.errors = Append(@, "Failed to load raw data")]
    /\ UNCHANGED <<stages, raw_file, tokenizer_vars>>

\* main(): cleaned_data = clean_data(data); None ends the run.
Clean ==
    /\ cleaner.pc = "loaded"
    /\ LET r == clean_data(cleaner.rows)
       IN  cleaner' = IF r.none
                      THEN [cleaner EXCEPT !.pc = "aborted", !.bounds = r.bounds,
                                           !.errors = Append(@, "Failed to clean data")]
                      ELSE [cleaner EXCEPT !.pc = "cleaned", !.rows = r.rows,
                                           !.bounds = r.bounds]
    /\ UNCHANGED <<stages, raw_file, tokenizer_vars>>

\* StandardScaler().fit on one column: the number of values, their sum and the
\* sum of their squares give mean_ = sum / n and var_ = sumsq / n - mean_^2.
RECURSIVE SeqSum(_)
SeqSum(q) == IF q = << >> THEN 0 ELSE Head(q) + SeqSum(Tail(q))

FitScaler(col) ==
    [n |-> Len(col), sum |-> SeqSum(col), sumsq |-> SeqSum([i \in 1..Len(col) |-> col[i] * col[i]])]

ScaledColumns == <<"open", "high", "low", "close", "volume">>

\* normalize_data: scalers[symbol][col] is fitted on that column of the symbol's
\* rows. (The normalized values themselves are not represented.)
normalize_scalers(df) ==
    LET symbols == UniqueSymbols(df)
    IN  [s \in Range(symbols) |->
            [c \in Range(ScaledColumns) |->
                LET symbol_data == FilterSymbol(df, s)
                IN  FitScaler([i \in 1..Len(symbol_data) |-> symbol_data[i].feat[c]])]]

\* main(): normalized_data, scalers = normalize_data(cleaned_data, method='standard')
Normalize ==
    /\ cleaner.pc = "cleaned"
    /\ cleaner' = [cleaner EXCEPT !.pc = "normalized",
                                  !.scalers = normalize_scalers(cleaner.rows)]
    /\ UNCHANGED <<stages, raw_file, tokenizer_vars>>

\* main(): enhanced_data = add_technical_indicators(normalized_data). (The
\* indicator columns are not represented.)
AddIndicators ==
    /\ cleaner.pc = "normalized"
    /\ cleaner' = [cleaner EXCEPT !.pc = "enhanced"]
    /\ UNCHANGED <<stages, raw_file, tokenizer_vars>>

\* The files save_processed_data writes.
ProcessedFiles == {"ohlcv_data.csv", "scalers.pkl", "data_summary.txt"}

\* main(): save_processed_data(enhanced_data, scalers, output_dir), the last step.
SaveProcessed ==
    /\ cleaner.pc = "enhanced"
    /\ cleaner' = [cleaner EXCEPT !.pc = "done", !.written = ProcessedFiles]
    /\ UNCHANGED <<stages, raw_file, tokenizer_vars>>

NextClean == LoadRaw \/ Clean \/ Normalize \/ AddIndicators \/ SaveProcessed

SpecClean == InitClean /\ [][NextClean]_vars

----------------------------------------------------------------------------
(* Prediction: KronosPredictor (predict_evaluate.py) and KronosCLI         *)
(* (kronos_predict.py). A bar is a record [symbol, timestamp, close,       *)
(* index], index being the row's label in the DataFrame it was read into.  *)
(* The network is not part of the repository: what it returns for an input *)
(* is chosen freely, as an array of one row of features per step, which is *)
(* the shape that predictions[:, 3] reads the close column from.           *)

\* most rows of one symbol in the evaluator's test data
MaxTestRows == 3

\* most steps predicted
MaxSteps == 2

\* position (0-based) of 'close' in a row of predicted features
ClosePosition == 3

\* numbers as quotients of integers
Ratio(a, b) == [num |-> a, den |-> b]

\* The rows normalize_data fitted the scalers on: two symbols of two rows.
ScalerRows(syms) ==
    SelectSeq(<<RawRow("A", 1, "plain"), RawRow("A", 2, "plain"),
                RawRow("B", 3, "plain"), RawRow("B", 9, "plain")>>,
              LAMBDA r : r.symbol \in syms)

\* sklearn's StandardScaler: scale_ = sqrt(var_), and 1 where var_ is 0. With
\* var_ = (n * sumsq - sum^2) / n^2, scale_ * n is the root of n * sumsq - sum^2.
ScaleTimesN(sc) ==
    LET v == sc.n * sc.sumsq - sc.sum * sc.sum
    IN  IF v = 0 THEN sc.n ELSE CHOOSE r \in 1..v : r * r = v

\* StandardScaler.transform of one value: (x - mean_) / scale_
scaler_transform(sc, x) == Ratio(x * sc.n - sc.sum, ScaleTimesN(sc))

\* StandardScaler.inverse_transform of one value: X * scale_ + mean_.
inverse_transform(sc, x) == Ratio(x * ScaleTimesN(sc) + sc.sum, sc.n)

\* self.scalers[symbol]['open']
CloseScalerOpen(scalers, symbol) == scalers[symbol]["open"]

\* self.scalers[symbol]['close']
CloseScaler(scalers, symbol) == scalers[symbol]["close"]

\* The network's output: steps rows of features around a level base, the
\* feature at 0-based position k being 10 * k + base + the step.
ModelOutput(base, steps) ==
    [i \in 1..steps |-> [k \in 1..Len(MainFeatureColumns) |-> 10 * (k - 1) + base + i]]

\* predictions[:, 3]
CloseColumn(predictions) ==
    [i \in 1..Len(predictions) |-> predictions[i][ClosePosition + 1]]

\* KronosPredictor.inverse_transform_predictions(predictions, symbol), the
\* predictions being one value per step. scalers is [is_none, dict].
KronosPredictor_inverse_transform_predictions(scalers, predictions, symbol) ==
    IF scalers.is_none \/ symbol \notin DOMAIN scalers.dict
    THEN [i \in 1..Len(predictions) |-> Ratio(predictions[i], 1)]
    ELSE LET close_scaler == CloseScaler(scalers.dict, symbol)
         IN  [i \in 1..Len(predictions) |-> inverse_transform(close_scaler, predictions[i])]

\* data[data['symbol'] == symbol].sort_values('timestamp') on bars
SymbolBars(df, symbol) ==
    SortSeq(SelectSeq(df, LAMBDA r : r.symbol = symbol),
            LAMBDA r, q : r.timestamp < q.timestamp)

\* DataFrame.tail(n)
Tail_n(df, n) == SubSeq(df, Len(df) - n + 1, Len(df))

\* KronosPredictor.prepare_input_sequence: the last sequence_length rows of
\* the symbol, or all of them, with a warning, when there are fewer.
prepare_input_sequence(df, symbol, seq_len) ==
    LET symbol_data == SymbolBars(df, symbol)
        short == Len(symbol_data) < seq_len
    IN  [recent_data |-> Tail_n(symbol_data, IF short THEN Len(symbol_data) ELSE seq_len),
         warned |-> short]

\* evaluate_model: the closes at positions input_end_index + i of the symbol's
\* rows, i = 1, 2, ..., up to the first position past the end.
ActualValues(symbol_data, steps) ==
    LET input_end_index == symbol_data[Len(symbol_data)].index
        count == IF input_end_index + 1 >= Len(symbol_data) THEN 0
                 ELSE Min2(steps, Len(symbol_data) - 1 - input_end_index)
    IN  [i \in 1..count |-> symbol_data[input_end_index + i + 1].close]

\* d[entry.symbol] = entry on a dict kept as the sequence of its entries: a
\* key that is present keeps its place.
DictSet(d, entry) ==
    IF \E j \in 1..Len(d) : d[j].symbol = entry.symbol
    THEN [j \in 1..Len(d) |-> IF d[j].symbol = entry.symbol THEN entry ELSE d[j]]
    ELSE Append(d, entry)

\* One pass of the loop body of evaluate_model for symbol: what is logged and
\* what, if anything, is stored. fails names the call that raises for a
\* reason outside the data's shape ("none", "prepare" or "predict"); in
\* prepare_input_sequence that is the move of the tensor to the device, which
\* comes after the warning about missing rows.
EvaluateOne(ev, symbol, fails, base) ==
    LET prep == prepare_input_sequence(ev.test_data, symbol, ev.sequence_length)
        predictions == ModelOutput(base, ev.prediction_steps)
        symbol_data == SymbolBars(ev.test_data, symbol)
        actual_values == ActualValues(symbol_data, ev.prediction_steps)
        pred_close_original ==
            KronosPredictor_inverse_transform_predictions(
                ev.scalers, CloseColumn(predictions), symbol)
        error == IF fails # "none" THEN fails
                 ELSE IF symbol_data = << >> THEN "IndexError"
                 ELSE IF actual_values # << >>
                         /\ Len(actual_values) # Len(pred_close_original)
                      THEN "ValueError"
                 ELSE "none"
        prepared == fails # "prepare"
    IN  [ev EXCEPT
            !.position = @ + 1,
            !.visited = Append(@, [symbol |-> symbol, fails |-> fails, error |-> error,
                                   prepared |-> prepared,
                                   recent_data |-> IF prepared THEN prep.recent_data
                                                   ELSE << >>,
                                   raw |-> IF error = "none" /\ actual_values # << >>
                                           THEN CloseColumn(predictions) ELSE << >>]),
            !.warnings = @ \o (IF prep.warned
                                THEN <<[symbol |-> symbol, message |-> "Not enough data"]>>
                                ELSE << >>)
                           \o (IF error = "none" /\ actual_values = << >>
                                THEN <<[symbol |-> symbol, message |-> "No actual values"]>>
                                ELSE << >>),
            !.errors = IF error # "none" THEN Append(@, symbol) ELSE @,
            !.evaluation_results =
                 IF error = "none" /\ actual_values # << >>
                 THEN DictSet(@, [symbol |-> symbol, predictions |-> pred_close_original,
                                  actual_values |-> actual_values])
                 ELSE @]

\* The symbols evaluate_model is asked for: the test data never has "C".
SymbolLists == {<<"A">>, <<"A", "B">>, <<"B", "A">>, <<"C", "A">>, <<"A", "C", "B">>}

\* Test data as read_csv returns it, labelled 0, 1, ...: na rows of A followed
\* by nb rows of B, each symbol's rows oldest first or newest first.
TestData(na, nb, newest_first) ==
    [i \in 1..(na + nb) |->
        LET own == IF i <= na THEN i ELSE i - na
            count == IF i <= na THEN na ELSE nb
            t == IF newest_first THEN count + 1 - own ELSE own
        IN  [symbol |-> IF i <= na THEN "A" ELSE "B", timestamp |-> t,
             close |-> (IF i <= na THEN 100 ELSE 200) + 10 * t, index |-> i - 1]]

\* The scalers a predictor holds: None, or the dict that was unpickled.
ScalerChoices ==
    {[is_none |-> TRUE, dict |-> << >>]}
    \cup {[is_none |-> FALSE, dict |-> normalize_scalers(ScalerRows(syms))] :
             syms \in {{"A"}, {"A", "B"}}}

InitEvaluate ==
    /\ \E na \in 0..MaxTestRows, nb \in 0..1, newest_first \in BOOLEAN,
          symbols \in SymbolLists, seq_len \in {1, MainSequenceLength},
          steps \in 1..MaxSteps, scalers \in ScalerChoices :
          evaluator = [pc |-> "evaluating", test_data |-> TestData(na, nb, newest_first),
                       symbols |-> symbols, sequence_length |-> seq_len,
                       prediction_steps |-> steps, scalers |-> scalers,
                       position |-> 0, visited |-> << >>, warnings |-> << >>,
                       errors |-> << >>, evaluation_results |-> << >>]
    /\ cli = Idle
    /\ downloader = Idle
    /\ tokenize_main = Idle
    /\ tuner = Idle
    /\ store = NoStore
    /\ raw_file = [readable |-> FALSE, rows |-> << >>]
    /\ cleaner = CleanerStart
    /\ data = << >>
    /\ n_bins = MainBins
    /\ vocab_size = MainVocabSize
    /\ feature_columns = MainFeatureColumns
    /\ sequence_length = MainSequenceLength
    /\ prediction_length = MainPredictionLength
    /\ stride = MainStride
    /\ discretizers = << >>
    /\ last_transform = NoTransform
    /\ training = NotRun

\* what the evaluator and the prediction CLI leave alone
pipeline_vars == <<raw_file, cleaner, tokenizer_vars, downloader, tokenize_main, tuner>>

\* evaluate_model: the loop body for the next symbol of the list.
EvaluateSymbol ==
    /\ evaluator.pc = "evaluating"
    /\ evaluator.position < Len(evaluator.symbols)
    /\ \E fails \in {"none", "prepare", "predict"}, base \in {-1, 2} :
          evaluator' = EvaluateOne(evaluator, evaluator.symbols[evaluator.position + 1],
                                   fails, base)
    /\ UNCHANGED <<cli, pipeline_vars>>

\* evaluate_model: return evaluation_results, after the last symbol.
EvaluateReturn ==
    /\ evaluator.pc = "evaluating"
    /\ evaluator.position = Len(evaluator.symbols)
    /\ evaluator' = [evaluator EXCEPT !.pc = "returned"]
    /\ UNCHANGED <<cli, pipeline_vars>>

\* most rows the price service returns to the prediction CLI
MaxBars == 21

\* rolling(window=20) of sma_20 and the Bollinger bands
LongWindow == 20

\* rolling(window=14) of the RSI's gain and loss
RsiWindow == 14

\* What stock.history returns for symbol: n daily bars, oldest first, with a
\* close that rises by one a day or stays flat.
Bars(symbol, n, flat) ==
    [i \in 1..n |-> [symbol |-> symbol, timestamp |-> i,
                     close |-> IF flat THEN 100 ELSE 100 + i, index |-> i - 1]]

\* The RSI of row i is a number: the window of RsiWindow rows ending at i is
\* complete and has a gain or a loss in it (0 / 0 is NaN; the first row's
\* diff is NaN and counts as neither).
RsiDefined(df, i) ==
    /\ i >= RsiWindow
    /\ \E j \in (i - RsiWindow + 1)..i : j >= 2 /\ df[j].close # df[j - 1].close

\* KronosCLI.calculate_technical_indicators: the rows that dropna() keeps are
\* those where every rolling window is complete and the RSI is a number. (The
\* indicator values themselves are not represented.)
calculate_technical_indicators(df) ==
    SelectSeq(df, LAMBDA r :
        LET i == CHOOSE k \in 1..Len(df) : df[k] = r
        IN  i >= LongWindow /\ RsiDefined(df, i))

\* KronosCLI.prepare_data_for_prediction on downloaded bars, which have no
\* 'sma_5' column: the indicators are always computed. scalers is the dict.
\* The close column of the returned rows is a quotient: it is overwritten
\* with its scaled values when the first row's symbol has scalers.
prepare_data_for_prediction(scalers, df, seq_len) ==
    LET sorted == SortSeq(df, LAMBDA r, q : r.timestamp < q.timestamp)
        short == Len(sorted) < seq_len
        with_indicators == calculate_technical_indicators(
                               Tail_n(sorted, IF short THEN Len(sorted) ELSE seq_len))
        scaled == scalers # << >> /\ with_indicators # << >>
                    /\ with_indicators[1].symbol \in DOMAIN scalers
        symbol_scalers == scalers[with_indicators[1].symbol]
        recent_data ==
            [i \in 1..Len(with_indicators) |->
                [with_indicators[i] EXCEPT
                    !.close = IF scaled THEN scaler_transform(symbol_scalers["close"], @)
                              ELSE Ratio(@, 1)]]
    IN  [warned |-> short, recent_data |-> recent_data,
         error |-> IF scalers # << >> /\ with_indicators = << >>
                   THEN "IndexError" ELSE "none"]

\* KronosCLI.inverse_transform_predictions(predictions, symbol): the whole
\* array unchanged when there is no scaler for the symbol, else the close
\* column on the original scale.
KronosCLI_inverse_transform_predictions(scalers, predictions, symbol) ==
    IF scalers = << >> \/ symbol \notin DOMAIN scalers
    THEN [raw |-> TRUE, rows |-> predictions, values |-> << >>]
    ELSE LET close_scaler == CloseScaler(scalers, symbol)
             close_predictions == CloseColumn(predictions)
         IN  [raw |-> FALSE, rows |-> << >>,
              values |-> [i \in 1..Len(close_predictions) |->
                             inverse_transform(close_scaler, close_predictions[i])]]

\* KronosCLI.generate_prediction_dates. A date is a record of year, month and
\* day; strftime('%Y-%m-%d') keeps exactly these three numbers, the time of
\* day of the timestamp being dropped.

\* the first year of the last known dates tried, and the most dates asked for
FirstYear == 2023
MaxDates == 6

IsLeap(year) == year % 4 = 0 /\ (year % 100 # 0 \/ year % 400 = 0)

DaysInMonth(year, month) ==
    IF month = 2 THEN (IF IsLeap(year) THEN 29 ELSE 28)
    ELSE IF month \in {4, 6, 9, 11} THEN 30 ELSE 31

RECURSIVE DaysBeforeMonth(_, _)
DaysBeforeMonth(year, month) ==
    IF month = 1 THEN 0
    ELSE DaysBeforeMonth(year, month - 1) + DaysInMonth(year, month - 1)

\* date.toordinal(): 0001-01-01 is day 1
toordinal(date) ==
    LET y == date.year - 1
    IN  365 * y + (y \div 4) - (y \div 100) + (y \div 400)
          + DaysBeforeMonth(date.year, date.month) + date.day

\* date.weekday(): Monday is 0, Sunday is 6
weekday(date) == (toordinal(date) + 6) % 7

\* current_date += timedelta(days=1)
AddDay(date) ==
    IF date.day < DaysInMonth(date.year, date.month)
    THEN [date EXCEPT !.day = @ + 1]
    ELSE IF date.month < 12 THEN [date EXCEPT !.month = @ + 1, !.day = 1]
    ELSE [year |-> date.year + 1, month |-> 1, day |-> 1]

\* a loop that steps over Sundays only
SkipsSundayOnly(date) == weekday(date) >= 6

\* the condition of the while loop: current_date.weekday() >= 5
SkipsWeekend(date) == weekday(date) >= 5

\* while current_date.weekday() >= 5: current_date += timedelta(days=1)
RECURSIVE SkipWeekend(_)
SkipWeekend(date) == IF SkipsWeekend(date) THEN SkipWeekend(AddDay(date)) ELSE date

\* current_date.strftime('%Y-%m-%d')
strftime(date) == <<date.year, date.month, date.day>>

RECURSIVE generate_prediction_dates(_, _)
generate_prediction_dates(last_date, steps) ==
    IF steps = 0 THEN << >>
    ELSE LET current_date == SkipWeekend(AddDay(last_date))
         IN  <<strftime(current_date)>> \o generate_prediction_dates(current_date, steps - 1)

\* the timestamp of daily bar number t: the bars are dated from the first of
\* February on, one a day
BarDate(t) == [year |-> FirstYear + 1, month |-> 2, day |-> t]

NoResult ==
    [symbol |-> "", prediction_steps |-> 0, sequence_length |-> 0,
     last_known_price |-> Ratio(0, 1), prediction_dates |-> << >>,
     predictions |-> [raw |-> FALSE, rows |-> << >>, values |-> << >>]]

\* KronosCLI.predict_symbol. downloaded is what the price service returned;
\* fails names the call that raises for a reason outside the data's shape
\* ("none", "download" or "predict").
predict_symbol(c, fails, base) ==
    LET prep == prepare_data_for_prediction(c.scalers, c.history, c.sequence_length)
        predictions == ModelOutput(base, c.steps)
        error == IF fails = "download" THEN "download"
                 ELSE IF c.history = << >> THEN "ValueError"
                 ELSE IF prep.error # "none" THEN prep.error
                 ELSE IF fails = "predict" THEN "predict"
                 ELSE IF prep.recent_data = << >> THEN "IndexError"
                 ELSE "none"
        prepared == fails # "download" /\ c.history # << >>
    IN  [error |-> error,
         prepared |-> prepared,
         warned |-> prepared /\ prep.warned,
         recent_data |-> IF prepared THEN prep.recent_data ELSE << >>,
         raw |-> IF error = "none" THEN CloseColumn(predictions) ELSE << >>,
         result |-> IF error # "none" THEN NoResult
                    ELSE [symbol |-> c.symbol, prediction_steps |-> c.steps,
                          sequence_length |-> c.sequence_length,
                          last_known_price |-> prep.recent_data[Len(prep.recent_data)].close,
                          prediction_dates |->
                              generate_prediction_dates(
                                  BarDate(prep.recent_data[Len(prep.recent_data)].timestamp),
                                  c.steps),
                          predictions |-> KronosCLI_inverse_transform_predictions(
                                              c.scalers, predictions, c.symbol)]]

\* main(): except Exception: log the error and sys.exit(1), reporting nothing.
HandleExceptionQuietly(c, step) ==
    [c EXCEPT !.pc = "exited", !.exit_status = 0, !.errors = Append(@, step)]

\* main(): except Exception: log the error and sys.exit(1).
HandleException(c, step) ==
    [c EXCEPT !.pc = "exited", !.exit_status = 1, !.errors = Append(@, step)]

\* The scalers file the CLI reads: an empty dict, or fitted scalers.
ScalerFiles == {normalize_scalers(ScalerRows(syms)) : syms \in {{}, {"A"}, {"A", "B"}}}

InitCli ==
    /\ \E symbol \in {"A", "B"}, n \in 0..MaxBars, flat \in BOOLEAN,
          seq_len \in {2, MaxBars, MainSequenceLength}, steps \in 1..MaxSteps,
          output \in BOOLEAN, file \in ScalerFiles :
          cli = [pc |-> "start", symbol |-> symbol, steps |-> steps,
                 sequence_length |-> seq_len, output |-> output,
                 history |-> Bars(symbol, n, flat), scalers_file |-> file,
                 scalers |-> << >>, prepared |-> FALSE, recent_data |-> << >>,
                 raw |-> << >>, result |-> NoResult, warnings |-> << >>,
                 errors |-> << >>, report_printed |-> FALSE,
                 file_written |-> FALSE, exit_status |-> 0]
    /\ evaluator = Idle
    /\ downloader = Idle
    /\ tokenize_main = Idle
    /\ tuner = Idle
    /\ store = NoStore
    /\ raw_file = [readable |-> FALSE, rows |-> << >>]
    /\ cleaner = CleanerStart
    /\ data = << >>
    /\ n_bins = MainBins
    /\ vocab_size = MainVocabSize
    /\ feature_columns = MainFeatureColumns
    /\ sequence_length = MainSequenceLength
    /\ prediction_length = MainPredictionLength
    /\ stride = MainStride
    /\ discretizers = << >>
    /\ last_transform = NoTransform
    /\ training = NotRun

\* main(): cli.load_model()
CliLoadModel ==
    /\ cli.pc = "start"
    /\ \E ok \in BOOLEAN :
          cli' = IF ok THEN [cli EXCEPT !.pc = "model_loaded"]
                 ELSE HandleException(cli, "load_model")
    /\ UNCHANGED <<evaluator, pipeline_vars>>

\* main(): cli.load_tokenizer()
CliLoadTokenizer ==
    /\ cli.pc = "model_loaded"
    /\ \E ok \in BOOLEAN :
          cli' = IF ok THEN [cli EXCEPT !.pc = "tokenizer_loaded"]
                 ELSE HandleException(cli, "load_tokenizer")
    /\ UNCHANGED <<evaluator, pipeline_vars>>

\* main(): cli.load_scalers()
CliLoadScalers ==
    /\ cli.pc = "tokenizer_loaded"
    /\ \E ok \in BOOLEAN :
          cli' = IF ok THEN [cli EXCEPT !.pc = "scalers_loaded",
                                        !.scalers = cli.scalers_file]
                 ELSE HandleException(cli, "load_scalers")
    /\ UNCHANGED <<evaluator, pipeline_vars>>

\* main(): result = cli.predict_symbol(...)
CliPredictSymbol ==
    /\ cli.pc = "scalers_loaded"
    /\ \E fails \in {"none", "download", "predict"}, base \in {-1, 2} :
          LET r == predict_symbol(cli, fails, base)
              logged == [cli EXCEPT !.prepared = r.prepared,
                                    !.recent_data = r.recent_data,
                                    !.warnings = IF r.warned
                                                 THEN Append(@, "Not enough data") ELSE @]
          IN  cli' = IF r.error = "none"
                     THEN [logged EXCEPT !.pc = "predicted", !.raw = r.raw,
                                         !.result = r.result]
                     ELSE HandleException(logged, r.error)
    /\ UNCHANGED <<evaluator, pipeline_vars>>

\* main(): the report. Formatting a prediction with :.2f raises TypeError when
\* the prediction is a row of the raw array and not a number.
CliPrintReport ==
    /\ cli.pc = "predicted"
    /\ \E stdout_ok \in BOOLEAN :
          cli' = IF ~stdout_ok THEN HandleException(cli, "print")
                 ELSE IF cli.result.predictions.raw THEN HandleException(cli, "TypeError")
                 ELSE [cli EXCEPT !.pc = "printed", !.report_printed = TRUE]
    /\ UNCHANGED <<evaluator, pipeline_vars>>

\* main(): if args.output: cli.save_predictions(result, args.output)
CliSavePredictions ==
    /\ cli.pc = "printed"
    /\ cli.output
    /\ \E ok \in BOOLEAN :
          cli' = IF ok THEN [cli EXCEPT !.pc = "saved", !.file_written = TRUE]
                 ELSE HandleException(cli, "save_predictions")
    /\ UNCHANGED <<evaluator, pipeline_vars>>

\* main(): the closing line, and the end of the try block.
CliFinish ==
    /\ \/ cli.pc = "printed" /\ ~cli.output
       \/ cli.pc = "saved"
    /\ \E stdout_ok \in BOOLEAN :
          cli' = IF stdout_ok THEN [cli EXCEPT !.pc = "exited", !.exit_status = 0]
                 ELSE HandleException(cli, "print")
    /\ UNCHANGED <<evaluator, pipeline_vars>>

NextPredict ==
    \/ EvaluateSymbol \/ EvaluateReturn
    \/ CliLoadModel \/ CliLoadTokenizer \/ CliLoadScalers \/ CliPredictSymbol
    \/ CliPrintReport \/ CliSavePredictions \/ CliFinish

InitPredict == InitEvaluate \/ InitCli

SpecPredict == InitPredict /\ [][NextPredict]_vars

----------------------------------------------------------------------------
(* The download stage (download_nse_data.py). What the price service does  *)
(* for a symbol is chosen freely: it raises, or returns a history of bars, *)
(* some of them with missing cells.                                        *)

\* the keys of NSE_STOCKS in their order
NSE_STOCKS ==
    <<"RELIANCE.NS", "TCS.NS", "INFY.NS", "HDFCBANK.NS", "NIFTY50.NS", "BANKNIFTY.NS">>

\* a downloaded bar
DownloadedBar(symbol, t, missing) ==
    [symbol |-> symbol, timestamp |-> t, close |-> 100 + t, has_nan |-> missing]

\* What can happen on stock.history for a symbol: an exception after a bar
\* was received, no data, or a history of one or two bars with or without
\* missing cells.
ServiceOutcomes(symbol) ==
    {[raises |-> TRUE, history |-> <<DownloadedBar(symbol, 1, FALSE)>>]}
    \cup {[raises |-> FALSE, history |-> h] :
             h \in {<< >>,
                    <<DownloadedBar(symbol, 1, FALSE)>>,
                    <<DownloadedBar(symbol, 1, TRUE)>>,
                    <<DownloadedBar(symbol, 2, FALSE), DownloadedBar(symbol, 1, TRUE)>>}}

\* download_stock_data that hands back what it received before an exception
download_stock_data_partial(outcome) ==
    IF outcome.history = << >>
    THEN [none |-> TRUE, data |-> << >>, log |-> "warning"]
    ELSE [none |-> FALSE, data |-> DropNa(outcome.history),
          log |-> IF outcome.raises THEN "error" ELSE "info"]

\* download_stock_data: None after an exception or for an empty history, else
\* the history without its rows with missing cells.
download_stock_data(outcome) ==
    IF outcome.raises \/ outcome.history = << >>
    THEN [none |-> TRUE, data |-> << >>,
          log |-> IF outcome.raises THEN "error" ELSE "warning"]
    ELSE [none |-> FALSE, data |-> DropNa(outcome.history), log |-> "info"]

\* the order of strings, on the keys of NSE_STOCKS
SymbolBefore(a, b) ==
    LET sorted == <<"BANKNIFTY.NS", "HDFCBANK.NS", "INFY.NS", "NIFTY50.NS",
                    "RELIANCE.NS", "TCS.NS">>
        at(x) == CHOOSE i \in 1..Len(sorted) : sorted[i] = x
    IN  at(a) < at(b)

\* combined_data.sort_values(['timestamp', 'symbol'])
SortByTimestampSymbol(df) ==
    SortSeq(df, LAMBDA r, q :
        \/ r.timestamp < q.timestamp
        \/ r.timestamp = q.timestamp /\ SymbolBefore(r.symbol, q.symbol))

DownloaderStart ==
    [pc |-> "downloading", position |-> 0, visited |-> << >>, all_data |-> << >>,
     individual_files |-> {}, combined |-> [written |-> FALSE, rows |-> << >>],
     errors |-> << >>]

InitDownload ==
    /\ downloader = DownloaderStart
    /\ cli = Idle
    /\ evaluator = Idle
    /\ tokenize_main = Idle
    /\ tuner = Idle
    /\ store = NoStore
    /\ raw_file = [readable |-> FALSE, rows |-> << >>]
    /\ cleaner = CleanerStart
    /\ data = << >>
    /\ n_bins = MainBins
    /\ vocab_size = MainVocabSize
    /\ feature_columns = MainFeatureColumns
    /\ sequence_length = MainSequenceLength
    /\ prediction_length = MainPredictionLength
    /\ stride = MainStride
    /\ discretizers = << >>
    /\ last_transform = NoTransform
    /\ training = NotRun

\* what the download stage leaves alone
download_unchanged == <<cli, evaluator, raw_file, cleaner, tokenizer_vars, tokenize_main, tuner>>

\* main(): the loop body for the next symbol of NSE_STOCKS. A symbol that was
\* downloaded is appended to all_data and then written to its own file;
\* data.to_csv stands outside any try, so when the write fails (write_fails)
\* the exception leaves main(): no later symbol is visited and no combined
\* file is written.
DownloadSymbol ==
    /\ downloader.pc = "downloading"
    /\ downloader.position < Len(NSE_STOCKS)
    /\ LET symbol == NSE_STOCKS[downloader.position + 1]
       IN  \E outcome \in ServiceOutcomes(symbol), write_fails \in BOOLEAN :
              LET r == download_stock_data(outcome)
              IN  /\ write_fails => ~r.none
                  /\ downloader' =
                      [downloader EXCEPT
                          !.pc = IF write_fails THEN "raised" ELSE @,
                          !.position = @ + 1,
                          !.visited = Append(@, [symbol |-> symbol, outcome |-> outcome,
                                                 write_fails |-> write_fails]),
                          !.errors = IF r.log = "error" THEN Append(@, symbol) ELSE @,
                          !.all_data = IF r.none THEN @ ELSE Append(@, r.data),
                          !.individual_files = IF r.none \/ write_fails THEN @
                                               ELSE @ \cup {symbol}]
    /\ UNCHANGED download_unchanged

\* main(): after the loop, the combined file, or an error when nothing was
\* downloaded. combined_data.to_csv stands outside any try as well: when it
\* fails the exception leaves main() and there is no combined file.
DownloadCombine ==
    /\ downloader.pc = "downloading"
    /\ downloader.position = Len(NSE_STOCKS)
    /\ \E write_fails \in BOOLEAN :
          /\ write_fails => downloader.all_data # << >>
          /\ downloader' =
                IF downloader.all_data = << >>
                THEN [downloader EXCEPT
                         !.pc = "done",
                         !.errors = Append(@, "No data was downloaded successfully")]
                ELSE IF write_fails
                THEN [downloader EXCEPT !.pc = "raised"]
                ELSE [downloader EXCEPT
                         !.pc = "done",
                         !.combined =
                             [written |-> TRUE,
                              rows |-> SortByTimestampSymbol(Flatten(downloader.all_data))]]
    /\ UNCHANGED download_unchanged

NextBatch == EvaluateSymbol \/ EvaluateReturn \/ DownloadSymbol \/ DownloadCombine

InitBatch == InitEvaluate \/ InitDownload

SpecBatch == InitBatch /\ [][NextBatch]_vars

----------------------------------------------------------------------------
(* The tokenization stage: main() of tokenize_data.py. It works on the     *)
(* tokenizer variables: data is what load_processed_data returned, the     *)
(* tokenizer is fitted into discretizers and saved into store, and         *)
(* training holds what create_sequences_for_training returned.             *)

\* the fewest rows of one symbol that give a training pair in main()
EnoughRows == MainSequenceLength + MainPredictionLength + 1

\* the columns of a processed file without indicator columns
PlainColumns == SubSeq(MainFeatureColumns, 1, 5)

\* The processed file: unreadable, or all columns or only the OHLCV columns of
\* up to DefaultRows rows in some order, or of enough rows for one pair.
ProcessedInputs ==
    {[readable |-> FALSE, columns |-> << >>, rows |-> << >>]}
    \cup UNION {{[readable |-> TRUE, columns |-> cols,
                  rows |-> Reorder([t \in 1..n |-> IndicatorRow(t)], o[1], o[2])] :
                    cols \in {PlainColumns, MainFeatureColumns}, o \in RowOrders(n)} :
                 n \in 0..DefaultRows}
    \cup {[readable |-> TRUE, columns |-> PlainColumns,
           rows |-> [t \in 1..EnoughRows |-> IndicatorRow(t)]]}

InitTokenize ==
    /\ \E input \in ProcessedInputs :
          tokenize_main = [pc |-> "start", input |-> input, written |-> {},
                           partial |-> {}, errors |-> << >>, completed |-> FALSE]
    /\ cli = Idle
    /\ evaluator = Idle
    /\ downloader = Idle
    /\ tuner = Idle
    /\ store = NoStore
    /\ raw_file = [readable |-> FALSE, rows |-> << >>]
    /\ cleaner = CleanerStart
    /\ data = << >>
    /\ n_bins = MainBins
    /\ vocab_size = MainVocabSize
    /\ feature_columns = MainFeatureColumns
    /\ sequence_length = MainSequenceLength
    /\ prediction_length = MainPredictionLength
    /\ stride = MainStride
    /\ discretizers = << >>
    /\ last_transform = NoTransform
    /\ training = NotRun

\* what the tokenization stage leaves alone
tokenize_unchanged ==
    <<cli, evaluator, downloader, tuner, raw_file, cleaner, n_bins, vocab_size,
      sequence_length, prediction_length, stride, last_transform>>

\* main(): data = load_processed_data(input_file); None ends the run. Then the
\* feature columns that the file has.
TokLoad ==
    /\ tokenize_main.pc = "start"
    /\ IF tokenize_main.input.readable
       THEN /\ tokenize_main' = [tokenize_main EXCEPT !.pc = "loaded"]
            /\ data' = tokenize_main.input.rows
            /\ feature_columns' =
                  SelectSeq(MainFeatureColumns,
                            LAMBDA c : c \in Range(tokenize_main.input.columns))
       ELSE /\ tokenize_main' =
                  [tokenize_main EXCEPT !.pc = "aborted",
                                        !.errors = Append(@, "Failed to load processed data")]
            /\ UNCHANGED <<data, feature_columns>>
    /\ UNCHANGED <<tokenize_unchanged, discretizers, store, training>>

\* main(): tokenizer.fit(data, available_columns). KBinsDiscretizer.fit raises
\* ValueError on a column without values, which nothing catches.
TokFit ==
    /\ tokenize_main.pc = "loaded"
    /\ IF data = << >>
       THEN /\ tokenize_main' = [tokenize_main EXCEPT !.pc = "crashed",
                                                      !.errors = Append(@, "ValueError")]
            /\ UNCHANGED discretizers
       ELSE /\ tokenize_main' = [tokenize_main EXCEPT !.pc = "fitted"]
            /\ discretizers' = fit(data, feature_columns, discretizers, n_bins)
    /\ UNCHANGED <<tokenize_unchanged, data, feature_columns, store, training>>

\* main(): tokenizer.save(tokenizer_file)
TokSaveTokenizer ==
    /\ tokenize_main.pc = "fitted"
    /\ tokenize_main' = [tokenize_main EXCEPT !.pc = "tokenizer_saved",
                                              !.written = @ \cup {"kronos_tokenizer.pkl"}]
    /\ store' = [store EXCEPT !.exists = TRUE,
                              !.file = PickleDict(SaveKeys, TokenizerNow),
                              !.saved = TokenizerNow]
    /\ UNCHANGED <<tokenize_unchanged, data, feature_columns, discretizers, training>>

\* main(): input_sequences, target_sequences = create_sequences_for_training(...)
TokCreateSequences ==
    /\ tokenize_main.pc = "tokenizer_saved"
    /\ tokenize_main' = [tokenize_main EXCEPT !.pc = "sequenced"]
    /\ training' =
          [ran |-> TRUE] @@
          create_sequences_for_training(data, feature_columns, sequence_length,
                                        prediction_length, stride)
    /\ UNCHANGED <<tokenize_unchanged, data, feature_columns, discretizers, store>>

\* save_tokenized_data: tokenized_data.pkl is written first, then the info
\* file; np.array([]) has shape (0,), so that input_sequences.shape[1] raises
\* IndexError in the middle of the info file when there is no sequence.
save_tokenized_data(input_sequences) ==
    IF input_sequences = << >>
    THEN [written |-> {"tokenized_data.pkl"}, partial |-> {"tokenized_data_info.txt"},
          error |-> "IndexError"]
    ELSE [written |-> {"tokenized_data.pkl", "tokenized_data_info.txt"},
          partial |-> {}, error |-> "none"]

\* main(): save_tokenized_data(input_sequences, target_sequences, output_dir)
\* and the message of success.
TokSaveTokenized ==
    /\ tokenize_main.pc = "sequenced"
    /\ LET r == save_tokenized_data(training.input_sequences)
       IN  tokenize_main' =
              [tokenize_main EXCEPT
                  !.pc = IF r.error = "none" THEN "done" ELSE "crashed",
                  !.written = @ \cup r.written,
                  !.partial = @ \cup r.partial,
                  !.errors = IF r.error = "none" THEN @ ELSE Append(@, r.error),
                  !.completed = (r.error = "none")]
    /\ UNCHANGED <<tokenize_unchanged, data, feature_columns, discretizers, store,
                   training>>

NextTokenize == TokLoad \/ TokFit \/ TokSaveTokenizer \/ TokCreateSequences \/ TokSaveTokenized

SpecTokenize == InitTokenize /\ [][NextTokenize]_vars

----------------------------------------------------------------------------
(* Fine-tuning: KronosFineTuner.fine_tune (fine_tune_model.py). The losses *)
(* that train_epoch and validate return are chosen freely; either call can *)
(* raise, and nothing in fine_tune catches that. log lists, in order, the  *)
(* calls made and the files written; a file is named by its kind and, for  *)
(* per-epoch checkpoints, the number in its name.                          *)

\* most epochs asked for
MaxEpochs == 3

\* the losses range over 1..MaxLoss
MaxLoss == 2

\* float('inf'), above every loss
Infinity == MaxLoss + 1

\* A validation loss is a float: a number up to infinity, or NaN.
Num(v) == [nan |-> FALSE, value |-> v]
NaN == [nan |-> TRUE, value |-> 0]
ValLosses == {Num(v) : v \in 1..Infinity} \cup {NaN}

\* a <= b on floats
FloatLessOrEqual(a, b) == ~a.nan /\ ~b.nan /\ a.value <= b.value

\* a < b on floats: False when either side is NaN
FloatLess(a, b) == ~a.nan /\ ~b.nan /\ a.value < b.value

TunerStart(epochs) ==
    [pc |-> IF epochs > 0 THEN "train" ELSE "final", epochs |-> epochs, epoch |-> 0,
     train_loss |-> 0, val_loss |-> Num(0), best_val_loss |-> Num(Infinity),
     model_state |-> 0, files |-> << >>,
     history |-> [train_loss |-> << >>, val_loss |-> << >>],
     history_file |-> [exists |-> FALSE, train_loss |-> << >>, val_loss |-> << >>],
     log |-> << >>]

InitTune ==
    /\ \E epochs \in 0..MaxEpochs : tuner = TunerStart(epochs)
    /\ cli = Idle
    /\ evaluator = Idle
    /\ downloader = Idle
    /\ tokenize_main = Idle
    /\ store = NoStore
    /\ raw_file = [readable |-> FALSE, rows |-> << >>]
    /\ cleaner = CleanerStart
    /\ data = << >>
    /\ n_bins = MainBins
    /\ vocab_size = MainVocabSize
    /\ feature_columns = MainFeatureColumns
    /\ sequence_length = MainSequenceLength
    /\ prediction_length = MainPredictionLength
    /\ stride = MainStride
    /\ discretizers = << >>
    /\ last_transform = NoTransform
    /\ training = NotRun

\* what fine_tune leaves alone
tune_unchanged ==
    <<cli, evaluator, downloader, tokenize_main, raw_file, cleaner, tokenizer_vars>>

\* an entry of the log
Called(what, epoch) == [event |-> what, kind |-> "", number |-> epoch]
Saved(kind, number) == [event |-> "save", kind |-> kind, number |-> number]

\* fine_tune: train_loss = self.train_epoch(train_loader, epoch)
TuneTrain ==
    /\ tuner.pc = "train"
    /\ \E raises \in BOOLEAN, loss \in 1..MaxLoss :
          tuner' = IF raises THEN [tuner EXCEPT !.pc = "raised"]
                   ELSE [tuner EXCEPT !.pc = "validate", !.train_loss = loss,
                                      !.model_state = @ + 1,
                                      !.log = Append(@, Called("train", tuner.epoch + 1))]
    /\ UNCHANGED tune_unchanged

\* fine_tune: val_loss = self.validate(val_loader)
TuneValidate ==
    /\ tuner.pc = "validate"
    /\ \E raises \in BOOLEAN, loss \in ValLosses :
          tuner' = IF raises THEN [tuner EXCEPT !.pc = "raised"]
                   ELSE [tuner EXCEPT !.pc = "checkpoint", !.val_loss = loss,
                                      !.log = Append(@, Called("validate", tuner.epoch + 1))]
    /\ UNCHANGED tune_unchanged

\* The checkpoints at the end of an epoch, where the per-epoch one is only
\* written when the model improved
EpochSavesWhenBest(epoch, improved) ==
    IF improved THEN <<Saved("best", 0), Saved("epoch", epoch + 1)>> ELSE << >>

\* The checkpoints at the end of an epoch (epoch counts from 0): the best
\* model when the validation loss improved, then Kronos-India-small_epoch_
\* {epoch+1}.pth.
EpochSaves(epoch, improved) ==
    (IF improved THEN <<Saved("best", 0)>> ELSE << >>) \o <<Saved("epoch", epoch + 1)>>

\* torch.save(checkpoint, path) for every save of the list: the file of that
\* kind and number is created or replaced.
RECURSIVE WriteCheckpoints(_, _, _)
WriteCheckpoints(files, saves, checkpoint) ==
    IF saves = << >> THEN files
    ELSE LET name == [kind |-> Head(saves).kind, number |-> Head(saves).number]
             file == [name |-> name, checkpoint |-> checkpoint]
             written ==
                 IF \E j \in 1..Len(files) : files[j].name = name
                 THEN [j \in 1..Len(files) |->
                          IF files[j].name = name THEN file ELSE files[j]]
                 ELSE Append(files, file)
         IN  WriteCheckpoints(written, Tail(saves), checkpoint)

\* The dict that fine_tune saves: 'epoch' is the loop variable inside the
\* loop and epochs after it; the model state and val_loss are the current ones.
Checkpoint(t, epoch) ==
    [epoch |-> epoch, model_state |-> t.model_state, val_loss |-> t.val_loss]

\* KronosPredictor.load_model: the N of "Model was trained for N epochs" is
\* the checkpoint's 'epoch' field
load_model_trained_for(checkpoint) == checkpoint.epoch

\* fine_tune: the rest of the loop body: the history grows, the checkpoints
\* are saved, and the loop goes to the next epoch or ends.
TuneCheckpoint ==
    /\ tuner.pc = "checkpoint"
    /\ LET improved == FloatLess(tuner.val_loss, tuner.best_val_loss)
       IN  tuner' =
              [tuner EXCEPT
                  !.pc = IF tuner.epoch + 1 < tuner.epochs THEN "train" ELSE "final",
                  !.epoch = @ + 1,
                  !.history = [train_loss |-> Append(@.train_loss, tuner.train_loss),
                               val_loss |-> Append(@.val_loss, tuner.val_loss)],
                  !.best_val_loss = IF improved THEN tuner.val_loss ELSE @,
                  !.files = WriteCheckpoints(@, EpochSaves(tuner.epoch, improved),
                                             Checkpoint(tuner, tuner.epoch)),
                  !.log = @ \o EpochSaves(tuner.epoch, improved)]
    /\ UNCHANGED tune_unchanged

\* fine_tune: after the loop, the final checkpoint and training_history.json.
\* With epochs = 0 train_loss was never assigned and the final checkpoint
\* raises UnboundLocalError.
TuneFinal ==
    /\ tuner.pc = "final"
    /\ tuner' =
          IF tuner.epochs = 0 THEN [tuner EXCEPT !.pc = "raised"]
          ELSE [tuner EXCEPT
                   !.pc = "returned",
                   !.history_file = [exists |-> TRUE,
                                     train_loss |-> tuner.history.train_loss,
                                     val_loss |-> tuner.history.val_loss],
                   !.files = WriteCheckpoints(@, <<Saved("final", 0)>>,
                                              Checkpoint(tuner, tuner.epochs)),
                   !.log = @ \o <<Saved("final", tuner.epochs), Saved("history", 0)>>]
    /\ UNCHANGED tune_unchanged

NextTune == TuneTrain \/ TuneValidate \/ TuneCheckpoint \/ TuneFinal

SpecTune == InitTune /\ [][NextTune]_vars

-----------------------------------------------------------------------------
(* KronosFineTuner.load_data: the tokenized pairs are split into a training *)
(* and a validation dataset.                                                *)

\* the largest number of input/target pairs in tokenized_data.pkl
MaxPairs == 5
\* the largest token of a pair
MaxToken == 1

\* the float64 literal 0.8 is EightTenths / 2^53, here in limbs
EightTenths == <<6554, 13107, 26214, 204>>

RECURSIVE BigToInt(_)
BigToInt(b) == IF b = << >> THEN 0 ELSE Head(b) + LimbBase * BigToInt(Tail(b))

\* int(x) of the float64 x = b / 2^53: the 53 low bits are dropped
F64Int(b) == BigToInt(BigShiftRightBits(SubSeq(b, 4, Len(b)), 8))

\* a split that rounds 0.8 * n to the nearest whole number
train_size_nearest(n) == (4 * n + 2) \div 5

\* train_size = int(0.8 * len(input_sequences)): a float64 product, truncated
train_size(n) == IF n = 0 THEN 0 ELSE F64Int(F64Round(BigMul(EightTenths, n)))

\* IndianStockDataset(input_sequences, target_sequences)
IndianStockDataset(input_sequences, target_sequences) ==
    [input_sequences |-> input_sequences, target_sequences |-> target_sequences]

\* IndianStockDataset.__getitem__
Dataset_getitem(dataset, idx) ==
    [input |-> dataset.input_sequences[idx + 1], target |-> dataset.target_sequences[idx + 1]]

\* no dataset was built
NoDataset == IndianStockDataset(<< >>, << >>)

\* DataLoader(dataset, shuffle=...): the RandomSampler of a shuffling loader
\* raises ValueError for a dataset without items
DataLoader(dataset, shuffle) ==
    IF shuffle /\ Len(dataset.input_sequences) = 0 THEN "ValueError" ELSE "none"

\* load_data, from the unpickled dictionary to the two datasets and their
\* loaders; an exception is logged and raised again, and nothing is returned
load_data(file) ==
    LET size == train_size(Len(file.input_sequences))
        n == Len(file.input_sequences)
        m == Len(file.target_sequences)
        train_dataset == IndianStockDataset(SubSeq(file.input_sequences, 1, size),
                                            SubSeq(file.target_sequences, 1, size))
        val_dataset == IndianStockDataset(SubSeq(file.input_sequences, size + 1, n),
                                          SubSeq(file.target_sequences, size + 1, m))
        error == IF ~file.readable THEN "FileNotFoundError"
                 ELSE IF DataLoader(train_dataset, TRUE) # "none"
                      THEN DataLoader(train_dataset, TRUE)
                 ELSE DataLoader(val_dataset, FALSE)
    IN  [error |-> error,
         train_dataset |-> IF error = "none" THEN train_dataset ELSE NoDataset,
         val_dataset |-> IF error = "none" THEN val_dataset ELSE NoDataset]

\* tokenized_data.pkl as save_tokenized_data writes it for a token stream cut
\* into windows of one token that advance by one: pair i is the i-th token
\* and the token after it
TokenizedFile(stream, readable) ==
    [readable |-> readable,
     input_sequences |-> [i \in 1..(Len(stream) - 1) |-> <<stream[i]>>],
     target_sequences |-> [i \in 1..(Len(stream) - 1) |-> <<stream[i + 1]>>]]

NoItem == [dataset |-> "", idx |-> 0, input |-> << >>, target |-> << >>]

LoaderStart(file) ==
    [pc |-> "load_data", file |-> file, train_dataset |-> NoDataset,
     val_dataset |-> NoDataset, item |-> NoItem, error |-> "none"]

InitSplit ==
    /\ \E n \in 0..MaxPairs, readable \in BOOLEAN :
          \E stream \in [1..(n + 1) -> 0..MaxToken] :
              tuner = LoaderStart(TokenizedFile(stream, readable))
    /\ cli = Idle
    /\ evaluator = Idle
    /\ downloader = Idle
    /\ tokenize_main = Idle
    /\ store = NoStore
    /\ raw_file = [readable |-> FALSE, rows |-> << >>]
    /\ cleaner = CleanerStart
    /\ data = << >>
    /\ n_bins = MainBins
    /\ vocab_size = MainVocabSize
    /\ feature_columns = MainFeatureColumns
    /\ sequence_length = MainSequenceLength
    /\ prediction_length = MainPredictionLength
    /\ stride = MainStride
    /\ discretizers = << >>
    /\ last_transform = NoTransform
    /\ training = NotRun

\* load_data: open() raises when the file is missing, the training loader
\* when the training set is empty; otherwise the two datasets and their
\* loaders are returned
LoadData ==
    /\ tuner.pc = "load_data"
    /\ LET split == load_data(tuner.file)
       IN  tuner' = [tuner EXCEPT !.pc = IF split.error = "none" THEN "loaded"
                                        ELSE "raised",
                                 !.error = split.error,
                                 !.train_dataset = split.train_dataset,
                                 !.val_dataset = split.val_dataset]
    /\ UNCHANGED tune_unchanged

\* a DataLoader takes item idx of its dataset
GetItem ==
    /\ tuner.pc = "loaded"
    /\ \E which \in {"train", "val"} :
          LET dataset == IF which = "train" THEN tuner.train_dataset ELSE tuner.val_dataset
          IN  \E idx \in 0..(Len(dataset.input_sequences) - 1) :
                  tuner' = [tuner EXCEPT
                               !.item = [dataset |-> which, idx |-> idx,
                                         input |-> Dataset_getitem(dataset, idx).input,
                                         target |-> Dataset_getitem(dataset, idx).target]]
    /\ UNCHANGED tune_unchanged

NextSplit == LoadData \/ GetItem

SpecSplit == InitSplit /\ [][NextSplit]_vars

-----------------------------------------------------------------------------
(* KronosCLI.generate_prediction_dates on its own. *)

\* the last known dates tried: the days of February and December of two years
LastDates ==
    UNION {{[year |-> y, month |-> m, day |-> d] : d \in 1..DaysInMonth(y, m)} :
              y \in FirstYear..(FirstYear + 1), m \in {2, 12}}

InitDates ==
    /\ \E last_date \in LastDates, steps \in 0..MaxDates :
          cli = [pc |-> "dates", last_date |-> last_date, steps |-> steps,
                 prediction_dates |-> << >>]
    /\ tuner = Idle
    /\ evaluator = Idle
    /\ downloader = Idle
    /\ tokenize_main = Idle
    /\ store = NoStore
    /\ raw_file = [readable |-> FALSE, rows |-> << >>]
    /\ cleaner = CleanerStart
    /\ data = << >>
    /\ n_bins = MainBins
    /\ vocab_size = MainVocabSize
    /\ feature_columns = MainFeatureColumns
    /\ sequence_length = MainSequenceLength
    /\ prediction_length = MainPredictionLength
    /\ stride = MainStride
    /\ discretizers = << >>
    /\ last_transform = NoTransform
    /\ training = NotRun

GenerateDates ==
    /\ cli.pc = "dates"
    /\ cli' = [cli EXCEPT !.pc = "dated",
                          !.prediction_dates =
                              generate_prediction_dates(cli.last_date, cli.steps)]
    /\ UNCHANGED <<evaluator, downloader, tokenize_main, tuner, outside, tokenizer_vars>>

SpecDates == InitDates /\ [][GenerateDates]_vars

-----------------------------------------------------------------------------
(* The features of training and of inference side by side: main() of       *)
(* clean_normalize_data.py on a raw file, then the CLI's                   *)
(* prepare_data_for_prediction on the same rows with the scalers that the  *)
(* training run saved. Of the feature columns, close, sma_5 and sma_20 are *)
(* represented, as exact quotients.                                        *)

\* A raw bar of symbol A: every column is at its low level or d above it.
HistoryRow(t, up, d) ==
    LET lift == IF up THEN d ELSE 0
    IN  [symbol |-> "A", timestamp |-> t, has_nan |-> FALSE,
         feat |-> [c \in Range(ScaledColumns) |->
             CASE c = "open"   -> 100 + lift
               [] c = "high"   -> 102 + lift
               [] c = "low"    -> 99 + lift
               [] c = "close"  -> 101 + lift
               [] c = "volume" -> 50 + lift]]

\* n bars, oldest first; the last k bars of the given parity are the high
\* ones. With (n, k) taken from HistoryShapes the variance of every column
\* has a rational root.
RawHistory(n, k, parity, d) ==
    [t \in 1..n |-> HistoryRow(t, t % 2 = parity /\ t > n - 2 * k, d)]

HistoryShapes == {<<20, 10>>, <<25, 9>>}

\* normalize_data: the close of every row scaled with its symbol's scaler
normalize_data(df) ==
    LET scalers == normalize_scalers(df)
    IN  [scalers |-> scalers,
         rows |-> [i \in 1..Len(df) |->
                      [symbol |-> df[i].symbol, timestamp |-> df[i].timestamp,
                       close |-> scaler_transform(scalers[df[i].symbol]["close"],
                                                  df[i].feat["close"])]]]

\* rolling(window).mean() at row i of a column of quotients with one
\* denominator; rows before the window is complete are dropped by dropna()
RollingMean(df, i, window) ==
    Ratio(SeqSum([j \in 1..window |-> df[i - window + j].close.num]),
          window * df[i].close.den)

\* The indicator columns of the rows of one symbol, oldest first, and
\* dropna(): close, sma_5 and sma_20 of the rows that are kept.
IndicatorValues(df) ==
    LET kept == SelectSeq([i \in 1..Len(df) |-> i],
                          LAMBDA i : i >= LongWindow /\ RsiDefined(df, i))
    IN  [k \in 1..Len(kept) |->
            [symbol |-> df[kept[k]].symbol, timestamp |-> df[kept[k]].timestamp,
             close |-> df[kept[k]].close,
             sma_5 |-> RollingMean(df, kept[k], 5),
             sma_20 |-> RollingMean(df, kept[k], LongWindow)]]

\* add_technical_indicators: the indicators are computed per symbol on the
\* symbol's rows sorted by timestamp and written back by row label, so the
\* rows keep the order of the DataFrame; dropna() then removes the rows
\* that have no indicators.
add_technical_indicators(df) ==
    LET symbol_data(s) ==
            IndicatorValues(SortSeq(SelectSeq(df, LAMBDA r : r.symbol = s),
                                    LAMBDA r, q : r.timestamp < q.timestamp))
        enhanced(i) ==
            SelectSeq(symbol_data(df[i].symbol),
                      LAMBDA r : r.timestamp = df[i].timestamp)
    IN  Flatten([i \in 1..Len(df) |-> enhanced(i)])

\* KronosCLI.prepare_data_for_prediction with its values: the tail, the
\* indicators of the tail's raw closes, then the scaling of the columns that
\* have a scaler, close among them and no indicator
prepare_features(scalers, df, seq_len) ==
    LET sorted == SortSeq(df, LAMBDA r, q : r.timestamp < q.timestamp)
        short == Len(sorted) < seq_len
        tail == Tail_n(sorted, IF short THEN Len(sorted) ELSE seq_len)
        recent_data == IndicatorValues(
            [i \in 1..Len(tail) |->
                [symbol |-> tail[i].symbol, timestamp |-> tail[i].timestamp,
                 close |-> Ratio(tail[i].feat["close"], 1)]])
    IN  IF scalers # << >> /\ recent_data = << >>
        THEN [error |-> "IndexError", rows |-> << >>]
        ELSE [error |-> "none",
              rows |-> [i \in 1..Len(recent_data) |->
                  IF scalers # << >> /\ recent_data[1].symbol \in DOMAIN scalers
                  THEN [recent_data[i] EXCEPT
                           !.close = scaler_transform(scalers[recent_data[1].symbol]["close"],
                                                      recent_data[i].close.num)]
                  ELSE recent_data[i]]]

InitFeatures ==
    /\ \E shape \in HistoryShapes, parity \in {0, 1}, d \in 1..MaxVal,
          seq_len \in {2, LongWindow, MaxBars, MainSequenceLength} :
          /\ raw_file = [readable |-> TRUE,
                         rows |-> RawHistory(shape[1], shape[2], parity, d)]
          /\ cli = [pc |-> "waiting", sequence_length |-> seq_len, scalers |-> << >>,
                    input_sequence |-> << >>, error |-> "none"]
    /\ cleaner = [pc |-> "start", rows |-> << >>, scalers |-> << >>,
                  normalized |-> << >>, enhanced |-> << >>]
    /\ evaluator = Idle
    /\ downloader = Idle
    /\ tokenize_main = Idle
    /\ tuner = Idle
    /\ store = NoStore
    /\ data = << >>
    /\ n_bins = MainBins
    /\ vocab_size = MainVocabSize
    /\ feature_columns = MainFeatureColumns
    /\ sequence_length = MainSequenceLength
    /\ prediction_length = MainPredictionLength
    /\ stride = MainStride
    /\ discretizers = << >>
    /\ last_transform = NoTransform
    /\ training = NotRun

\* main(): load_raw_data and clean_data
FeaturesClean ==
    /\ cleaner.pc = "start"
    /\ cleaner' = [cleaner EXCEPT !.pc = "cleaned", !.rows = clean_data(raw_file.rows).rows]
    /\ UNCHANGED <<stages, raw_file, tokenizer_vars>>

\* main(): normalized_data, scalers = normalize_data(cleaned_data)
FeaturesNormalize ==
    /\ cleaner.pc = "cleaned"
    /\ cleaner' = [cleaner EXCEPT !.pc = "normalized",
                                  !.scalers = normalize_data(cleaner.rows).scalers,
                                  !.normalized = normalize_data(cleaner.rows).rows]
    /\ UNCHANGED <<stages, raw_file, tokenizer_vars>>

\* main(): enhanced_data = add_technical_indicators(normalized_data), saved
\* with the scalers
FeaturesAddIndicators ==
    /\ cleaner.pc = "normalized"
    /\ cleaner' = [cleaner EXCEPT !.pc = "done",
                                  !.enhanced = add_technical_indicators(cleaner.normalized)]
    /\ UNCHANGED <<stages, raw_file, tokenizer_vars>>

\* The CLI loads the saved scalers and prepares its input from the same rows.
FeaturesPrepare ==
    /\ cleaner.pc = "done"
    /\ cli.pc = "waiting"
    /\ LET r == prepare_features(cleaner.scalers, raw_file.rows, cli.sequence_length)
       IN  cli' = [cli EXCEPT !.pc = IF r.error = "none" THEN "prepared" ELSE "exited",
                              !.scalers = cleaner.scalers,
                              !.input_sequence = r.rows,
                              !.error = r.error]
    /\ UNCHANGED <<evaluator, downloader, tokenize_main, tuner, outside, tokenizer_vars>>

NextFeatures ==
    FeaturesClean \/ FeaturesNormalize \/ FeaturesAddIndicators \/ FeaturesPrepare

SpecFeatures == InitFeatures /\ [][NextFeatures]_vars

----------------------------------------------------------------------------
(* What the claims speak about, said without the code's steps. *)

\* The symbols of the DataFrame and the rows of one symbol.
SymbolsPresent == {data[i].symbol : i \in 1..Len(data)}
RowsOf(s) == {data[i] : i \in {k \in 1..Len(data) : data[k].symbol = s}}
RowCount(s) == Cardinality(RowsOf(s))

\* The rows of a symbol in chronological order: the k-th has k - 1 earlier rows.
Chron(s) ==
    [k \in 1..RowCount(s) |->
        CHOOSE r \in RowsOf(s) :
            Cardinality({q \in RowsOf(s) : q.timestamp < r.timestamp}) = k - 1]

\* The feature values of a row, in the order of the column list.
FeatureRow(r) == [j \in 1..Len(feature_columns) |-> r.feat[feature_columns[j]]]

\* The feature rows of the rows first..last (1-based, inclusive) of a symbol.
ChronFeatures(s, first, last) ==
    [k \in 1..(last - first + 1) |-> FeatureRow(Chron(s)[first + k - 1])]

\* The symbols in the order in which their first rows appear in the DataFrame.
FirstIndex(s) == CHOOSE i \in 1..Len(data) :
                    data[i].symbol = s /\ \A j \in 1..(i - 1) : data[j].symbol # s
SymbolsBefore(s) == {q \in SymbolsPresent : FirstIndex(q) < FirstIndex(s)}

\* Sum of f over a finite set of symbols.
RECURSIVE SumOver(_, _)
SumOver(S, f) ==
    IF S = {} THEN 0
    ELSE LET x == CHOOSE y \in S : TRUE IN f[x] + SumOver(S \ {x}, f)

----------------------------------------------------------------------------
(* C1: number of training pairs of a single-symbol dataset. *)

\* The number of pairs the specification gives for K rows.
SpecifiedPairs(K, L, P, S) ==
    IF K >= L + P THEN ((K - L - P) \div S) + 1 ELSE 0

\* C1: for one symbol with K rows, create_sequences_for_training returns
\* floor((K - L - P) / S) + 1 pairs when K >= L + P and none when K < L + P.
C1_PairCount ==
    (training.ran /\ Cardinality(SymbolsPresent) = 1) =>
        \A s \in SymbolsPresent :
            /\ Len(training.input_sequences) =
                  SpecifiedPairs(RowCount(s), sequence_length, prediction_length, stride)
            /\ Len(training.target_sequences) = Len(training.input_sequences)

----------------------------------------------------------------------------
(* C3: shape of what create_sequences_for_training returns. *)

\* The windows of the symbols form blocks in order of first appearance; cnt gives
\* the size of each block, and the j-th window of a block starts at row (j-1)*stride.
WindowsLaidOut(cnt) ==
    /\ SumOver(SymbolsPresent, cnt) = Len(training.input_sequences)
    /\ \A s \in SymbolsPresent : \A j \in 1..cnt[s] :
          LET k == SumOver(SymbolsBefore(s), cnt) + j
              i == (j - 1) * stride
          IN  /\ i + sequence_length + prediction_length <= RowCount(s)
              /\ training.input_sequences[k] =
                    ChronFeatures(s, i + 1, i + sequence_length)
              /\ training.target_sequences[k] =
                    ChronFeatures(s, i + sequence_length + 1,
                                  i + sequence_length + prediction_length)

\* C3: the two collections have equal length; the k-th input is L consecutive
\* chronological rows [i, i+L) of one symbol and the k-th target the P rows
\* [i+L, i+L+P) that follow; i is a multiple of stride and consecutive starts
\* within a symbol differ by stride; no input or target is shorter than L or P.
C3_WindowShape ==
    training.ran =>
        /\ Len(training.input_sequences) = Len(training.target_sequences)
        /\ \E cnt \in [SymbolsPresent -> 0..Len(training.input_sequences)] :
              WindowsLaidOut(cnt)
        /\ \A k \in 1..Len(training.input_sequences) :
              /\ Len(training.input_sequences[k]) = sequence_length
              /\ Len(training.target_sequences[k]) = prediction_length

\* Two symbols in scrambled row order, each with at least two windows.
C3_Witness ==
    /\ training.ran
    /\ Cardinality(SymbolsPresent) = 2
    /\ data[1].symbol = "B"
    /\ \E i \in 1..(Len(data) - 1) : data[i].symbol = data[i + 1].symbol
                                      /\ data[i].timestamp > data[i + 1].timestamp
    /\ stride = 2
    /\ Len(training.input_sequences) >= 3

----------------------------------------------------------------------------
(* C4: no window and no token sequence mixes symbols. *)

\* The feature rows, and under given discretizers the tokens, of a symbol's rows.
FeatureRowsOf(s) == {FeatureRow(r) : r \in RowsOf(s)}
TokenOf(r, discs) == RowToken(r, FittedColumns(feature_columns, discs), discs, n_bins)
TokensOf(s, discs) == {TokenOf(r, discs) : r \in RowsOf(s)}

\* A transform call has returned token sequences.
Transformed == last_transform.calls >= 1 /\ last_transform.result.error = "none"

\* C4: every input window together with its target window holds rows of one
\* symbol only, and every token sequence holds tokens of rows of one symbol only.
C4_NoMixedSymbols ==
    /\ training.ran =>
          \A k \in 1..Len(training.input_sequences) :
              \E s \in SymbolsPresent :
                  /\ Range(training.input_sequences[k]) \subseteq FeatureRowsOf(s)
                  /\ Range(training.target_sequences[k]) \subseteq FeatureRowsOf(s)
    /\ Transformed =>
          \A k \in 1..Len(last_transform.result.token_sequences) :
              \E s \in SymbolsPresent :
                  Range(last_transform.result.token_sequences[k])
                      \subseteq TokensOf(s, last_transform.discretizers)

\* Both functions ran on interleaved rows of two symbols whose tokens differ.
C4_Witness ==
    /\ training.ran /\ Transformed
    /\ Len(training.input_sequences) >= 2
    /\ sequence_length = 2
    /\ Len(last_transform.result.token_sequences) >= 2
    /\ \E i \in 1..(Len(data) - 2) : data[i].symbol # data[i + 1].symbol
                                      /\ data[i + 1].symbol # data[i + 2].symbol
    /\ TokensOf("A", last_transform.discretizers)
          \cap TokensOf("B", last_transform.discretizers) = {}

----------------------------------------------------------------------------
(* C5: chunking of a symbol's tokens by transform. *)

FullChunks(s) == RowCount(s) \div sequence_length

\* C5: a symbol with K rows yields floor(K / L) token sequences; the j-th holds
\* the tokens of its chronological rows [j*L, (j+1)*L) in order, so no row is in
\* two sequences and a trailing group of fewer than L tokens is not emitted.
C5_Chunks ==
    Transformed =>
        LET out == last_transform.result.token_sequences
            chunks == [s \in SymbolsPresent |-> FullChunks(s)]
        IN  /\ Len(out) = SumOver(SymbolsPresent, chunks)
            /\ \A s \in SymbolsPresent : \A j \in 1..FullChunks(s) :
                  out[SumOver(SymbolsBefore(s), chunks) + j] =
                      [i \in 1..sequence_length |->
                          TokenOf(Chron(s)[(j - 1) * sequence_length + i],
                                  last_transform.discretizers)]

\* Unsorted rows, a symbol with two full chunks and a remainder that is dropped.
C5_Witness ==
    /\ Transformed
    /\ sequence_length = 2
    /\ \E s \in SymbolsPresent : FullChunks(s) = 2 /\ RowCount(s) % sequence_length = 1
    /\ \E i \in 1..(Len(data) - 1) : data[i].symbol = data[i + 1].symbol
                                      /\ data[i].timestamp > data[i + 1].timestamp
    /\ Cardinality(SymbolsPresent) = 2

----------------------------------------------------------------------------
(* C7: special-token codes and bin-derived codes are disjoint. *)

\* A float64 whole number is at least the small number n.
BigAtLeast(b, n) == Len(b) >= 2 \/ (Len(b) = 1 /\ b[1] >= n)

\* C7: the special tokens occupy exactly the codes 0..4; every offset
\* per-feature code lies in [5, n_bins + 4] and is no special-token code, and
\* every composite token that transform produced is at least 5.
C7_CodesDisjoint ==
    /\ Range(special_tokens) = 0..4
    /\ \A c \in DOMAIN discretizers : \A i \in 1..Len(data) :
          LET code == OffsetCode(discretizers[c], n_bins, data[i].feat[c])
          IN  code \in 5..(n_bins + 4) /\ code \notin Range(special_tokens)
    /\ Transformed =>
          \A k \in 1..Len(last_transform.result.token_sequences) :
              \A t \in Range(last_transform.result.token_sequences[k]) :
                  BigAtLeast(t, 5)

\* Two fitted columns, a row in the lowest bin of each, and its token returned.
C7_Witness ==
    /\ Transformed
    /\ last_transform.discretizers = discretizers
    /\ DOMAIN discretizers = {"close", "volume"}
    /\ \E i \in 1..Len(data) :
          /\ \A c \in DOMAIN discretizers :
                BinIndex(discretizers[c], n_bins, data[i].feat[c]) = 0
          /\ \E k \in 1..Len(last_transform.result.token_sequences) :
                TokenOf(data[i], discretizers)
                    \in Range(last_transform.result.token_sequences[k])

----------------------------------------------------------------------------
(* C10: values outside the fitted range. *)

\* The highest bin of a fitted discretizer: n_bins_ - 1.
HighestBin(d) == IF d.constant THEN 0 ELSE Len(d.bin_edges) - 2

BelowRange(d, nb, x) == ~d.constant /\ x * nb < d.bin_edges[1]
AboveRange(d, nb, x) == ~d.constant /\ x * nb > d.bin_edges[Len(d.bin_edges)]

\* The values tried: from below the smallest to above the largest in the data.
ProbeValues ==
    LET vs == {data[i].feat[c] : i \in 1..Len(data), c \in Range(feature_columns)}
    IN  IF vs = {} THEN {}
        ELSE ((CHOOSE v \in vs : \A w \in vs : v <= w) - 1)
             ..((CHOOSE v \in vs : \A w \in vs : v >= w) + 1)

\* C10: for every fitted column and every value, also below the fit-time
\* minimum or above the fit-time maximum, the bin index lies in [0, n_bins - 1];
\* below the range it is the lowest bin, above it the highest bin of the
\* discretizer; and transform returns instead of raising once a listed column
\* is fitted.
C10_Clipped ==
    /\ \A c \in DOMAIN discretizers : \A x \in ProbeValues :
          LET d == discretizers[c]
              b == BinIndex(d, n_bins, x)
          IN  /\ b \in 0..(n_bins - 1)
              /\ b <= HighestBin(d)
              /\ BelowRange(d, n_bins, x) => b = 0
              /\ AboveRange(d, n_bins, x) => b = HighestBin(d)
    /\ (last_transform.calls >= 1
        /\ FittedColumns(feature_columns, last_transform.discretizers) # << >>)
          => last_transform.result.error = "none"

\* A discretizer with all n_bins bins, fitted on the history; the last row lies
\* above its range and transform has returned that row's token.
C10_Witness ==
    /\ Transformed
    /\ last_transform.discretizers = discretizers
    /\ "close" \in DOMAIN discretizers
    /\ HighestBin(discretizers["close"]) = n_bins - 1
    /\ \E i \in 1..Len(data) :
          /\ AboveRange(discretizers["close"], n_bins, data[i].feat["close"])
          /\ \E k \in 1..Len(last_transform.result.token_sequences) :
                TokenOf(data[i], discretizers)
                    \in Range(last_transform.result.token_sequences[k])

----------------------------------------------------------------------------
(* C2: the end-to-end scenario. *)

\* The feature rows of the rows with timestamps first..last.
RowsByTimestamp(first, last) ==
    [k \in 1..(last - first + 1) |->
        FeatureRow(data[CHOOSE i \in 1..Len(data) : data[i].timestamp = first + k - 1])]

\* C2: 600 rows of one symbol with sequence_length = 512, prediction_length = 10
\* and stride = 256 give exactly one pair: the input is rows [0, 512) and the
\* target rows [512, 522) of the chronologically sorted rows.
C2_Scenario ==
    training.ran =>
        /\ Len(training.input_sequences) = 1
        /\ Len(training.target_sequences) = 1
        /\ training.input_sequences[1] = RowsByTimestamp(1, 512)
        /\ training.target_sequences[1] = RowsByTimestamp(513, 522)

\* The scenario has run on a file whose rows are not in chronological order.
C2_Witness ==
    /\ training.ran
    /\ Len(data) = 600
    /\ data[1].timestamp > data[2].timestamp
    /\ Len(training.input_sequences) = 1
    /\ Len(training.input_sequences[1]) = 512

----------------------------------------------------------------------------
(* C6 and C8: the composite token as a mixed-radix number. *)

\* The bin indices of a row in the fitted columns, in column order.
BinsOf(r, discs) ==
    LET fitted == FittedColumns(feature_columns, discs)
    IN  [j \in 1..Len(fitted) |-> BinIndex(discs[fitted[j]], n_bins, r.feat[fitted[j]])]

\* The number with the given digits, most significant first, computed exactly.
RECURSIVE MixedRadix(_, _, _)
MixedRadix(acc, digits, radix) ==
    IF digits = << >> \/ Len(acc) < 0 THEN acc
    ELSE MixedRadix(BigAdd(BigMul(acc, radix), Head(digits)), Tail(digits), radix)

\* The last F digits of a number, most significant first: repeated mod and div.
RECURSIVE Digits(_, _, _)
Digits(token, F, radix) ==
    IF F = 0 THEN << >>
    ELSE LET dm == BigDivMod(token, radix)
         IN  Digits(dm.q, F - 1, radix) \o <<dm.r>>

\* The rows whose tokens the last transform call returned: the chronological
\* rows 1..FullChunks(s) * L of every symbol s.
EmittedRows ==
    {<<s, k>> : s \in SymbolsPresent, k \in 1..Len(data)} \cap
    {p \in SymbolsPresent \X (1..Len(data)) : p[2] <= FullChunks(p[1]) * sequence_length}

\* The token that the last transform call returned for chronological row k of s.
TokenAt(s, k) ==
    LET chunks == [q \in SymbolsPresent |-> FullChunks(q)]
    IN  last_transform.result.token_sequences
            [SumOver(SymbolsBefore(s), chunks) + ((k - 1) \div sequence_length) + 1]
            [((k - 1) % sequence_length) + 1]

\* C6: the composite token of a row with bin indices b_0..b_{F-1} in the fitted
\* columns equals sum_j (b_j + |special tokens|) * radix^(F-1-j) with
\* radix = n_bins + |special tokens|: the first column is the most significant digit.
C6_MixedRadix ==
    Transformed =>
        \A p \in EmittedRows :
            LET bins == BinsOf(Chron(p[1])[p[2]], last_transform.discretizers)
            IN  TokenAt(p[1], p[2]) =
                    MixedRadix(<< >>, [j \in 1..Len(bins) |-> bins[j] + NumSpecial],
                               n_bins + NumSpecial)

\* C8: two rows receive the same composite token if and only if they have the
\* same bin index in every fitted column, and taking (token mod radix) and
\* (token div radix) repeatedly recovers the offset bin indices, last column first.
C8_Reversible ==
    Transformed =>
        /\ \A p \in EmittedRows : \A q \in EmittedRows :
              (TokenAt(p[1], p[2]) = TokenAt(q[1], q[2]))
                  <=> (BinsOf(Chron(p[1])[p[2]], last_transform.discretizers)
                       = BinsOf(Chron(q[1])[q[2]], last_transform.discretizers))
        /\ \A p \in EmittedRows :
              LET bins == BinsOf(Chron(p[1])[p[2]], last_transform.discretizers)
              IN  Digits(TokenAt(p[1], p[2]), Len(bins), n_bins + NumSpecial)
                      = [j \in 1..Len(bins) |-> bins[j] + NumSpecial]

----------------------------------------------------------------------------
(* C11: encoding, decoding and encoding again. The tokenizer has no        *)
(* decoder of its own; what is known of a bin is the interval between its  *)
(* two fitted edges, so a representative value of a bin is taken to be any *)
(* value of that interval: its lower edge, its centre or its upper edge.   *)
(* The single bin of a constant column is unbounded and every value        *)
(* represents it.                                                          *)

\* The values a bin can be decoded to, as ratios.
Representatives(d, nb, b) ==
    IF d.constant THEN {Ratio(x, 1) : x \in ProbeValues}
    ELSE {Ratio(d.bin_edges[b + 1], nb),
          Ratio(d.bin_edges[b + 1] + d.bin_edges[b + 2], 2 * nb),
          Ratio(d.bin_edges[b + 2], nb)}

\* The values of a column in the data; the values a discretizer was fitted on
\* are among them.
ColumnValues(c) == {data[i].feat[c] : i \in 1..Len(data)}

\* Encoding v gives a bin of the discretizer, and encoding any representative
\* value of that bin gives the same or an adjacent bin.
RoundTrips(d, v) ==
    LET b == BinIndex(d, n_bins, v)
    IN  /\ b \in 0..HighestBin(d)
        /\ \A r \in Representatives(d, n_bins, b) :
              BinIndexRatio(d, n_bins, r) \in {b - 1, b, b + 1}

\* A larger value never gets a smaller bin index.
Monotonic(d, vs) ==
    \A v \in vs : \A w \in vs :
        v <= w => BinIndex(d, n_bins, v) <= BinIndex(d, n_bins, w)

\* C11: for every fitted discretizer and every value of the data it
\* was fitted on, encoding the value, decoding the bin to a representative
\* value and encoding that lands in the same or an adjacent bin, and the
\* value-to-bin mapping is monotonic.
C11_RoundTrip ==
    \A c \in DOMAIN discretizers :
        /\ \A v \in ColumnValues(c) : RoundTrips(discretizers[c], v)
        /\ Monotonic(discretizers[c], ColumnValues(c) \cup ProbeValues)

\* Fitted are a column with three bins, each holding a value of the data, and
\* a constant column, whose fit degraded to a single bin.
C11_Witness ==
    /\ \E c \in DOMAIN discretizers :
          /\ HighestBin(discretizers[c]) = 2
          /\ {BinIndex(discretizers[c], n_bins, v) : v \in ColumnValues(c)} = 0..2
    /\ \E c \in DOMAIN discretizers : discretizers[c].constant

----------------------------------------------------------------------------
(* C12: saving a tokenizer and loading it back. *)

\* C12: the loaded tokenizer has the n_bins, vocab_size, special-token mapping
\* and discretizers of the tokenizer that was saved, and transform on it returns
\* the token sequences that transform with the saved tokenizer returns.
C12_SaveLoad ==
    store.is_loaded =>
        /\ store.loaded.n_bins = store.origin.n_bins
        /\ store.loaded.vocab_size = store.origin.vocab_size
        /\ store.loaded.special_tokens = store.origin.special_tokens
        /\ DOMAIN store.loaded.discretizers = DOMAIN store.origin.discretizers
        /\ \A c \in DOMAIN store.origin.discretizers :
              store.loaded.discretizers[c] = store.origin.discretizers[c]
        /\ store.calls >= 1 =>
              store.result = transform(data, feature_columns, sequence_length,
                                       store.origin.discretizers, store.origin.n_bins)

\* A tokenizer with two fitted columns and a vocabulary size other than the
\* default was saved, loaded, and has tokenized two rows.
C12_Witness ==
    /\ store.is_loaded
    /\ store.calls >= 1
    /\ DOMAIN store.loaded.discretizers = {"close", "volume"}
    /\ store.loaded.vocab_size # MainVocabSize
    /\ store.result.error = "none"
    /\ Len(store.result.token_sequences) = 2

----------------------------------------------------------------------------
(* C13: rows retained by clean_data lie within the IQR bounds. *)

\* The rows of the raw file without missing cells, per symbol.
PresentRows(s) == {r \in Range(raw_file.rows) : ~r.has_nan /\ r.symbol = s}

\* 4 * the quantile q / 4 of a non-empty set of rows in column c, from the
\* order statistics: the k-th smallest value has k - 1 rows before it.
Smallest(rows, c, k) ==
    LET r == CHOOSE r \in rows :
                 \E before \in SUBSET (rows \ {r}) :
                     /\ Cardinality(before) = k - 1
                     /\ \A q \in before : q.feat[c] <= r.feat[c]
                     /\ \A q \in rows \ (before \cup {r}) : q.feat[c] >= r.feat[c]
    IN  r.feat[c]

SpecQuantile4(rows, c, q) ==
    LET pos == q * (Cardinality(rows) - 1)
        lo == pos \div 4
    IN  IF pos % 4 = 0 THEN 4 * Smallest(rows, c, lo + 1)
        ELSE (4 - (pos % 4)) * Smallest(rows, c, lo + 1)
             + (pos % 4) * Smallest(rows, c, lo + 2)

\* 8 * [lo, hi] for column c of the rows: Q1 - 1.5 IQR and Q3 + 1.5 IQR for a
\* price column, max(0, Q1 - 3 IQR) and Q3 + 3 IQR for volume.
SpecBounds(rows, c) ==
    LET Q1 == SpecQuantile4(rows, c, 1)
        Q3 == SpecQuantile4(rows, c, 3)
        k2 == IF c = "volume" THEN 6 ELSE 3
        lower == 2 * Q1 - k2 * (Q3 - Q1)
    IN  [lo |-> IF c = "volume" /\ lower < 0 THEN 0 ELSE lower,
         hi |-> 2 * Q3 + k2 * (Q3 - Q1)]

Within(r, c, b) == b.lo <= 8 * r.feat[c] /\ 8 * r.feat[c] <= b.hi

\* The rows of a symbol that are within the bounds of the first j filtered columns.
Survivors(entry, j) ==
    {r \in PresentRows(entry.symbol) :
        \A i \in 1..j : ~entry.columns[i].bounds.nan
                          /\ Within(r, entry.columns[i].column, entry.columns[i].bounds)}

\* C13: after clean_data, for every symbol the filtered columns are open, high,
\* low, close, volume in this order; the bounds of each are the IQR bounds
\* (1.5 IQR for prices, 3 IQR with the lower bound floored at 0 for volume) of
\* the symbol's rows that were left when the column was filtered; every retained
\* row lies within the bounds of every column, and the retained rows are exactly
\* the rows within all of them, so that no later filter re-admits a row.
C13_WithinBounds ==
    cleaner.pc \in {"cleaned", "aborted"} /\ raw_file.readable =>
        \A k \in 1..Len(cleaner.bounds) :
            LET entry == cleaner.bounds[k]
                kept == {r \in Range(cleaner.rows) : r.symbol = entry.symbol}
            IN  /\ [j \in 1..Len(entry.columns) |-> entry.columns[j].column]
                      = <<"open", "high", "low", "close", "volume">>
                /\ \A j \in 1..Len(entry.columns) :
                      LET left == Survivors(entry, j - 1)
                      IN  IF left = {} THEN entry.columns[j].bounds.nan
                          ELSE /\ ~entry.columns[j].bounds.nan
                               /\ entry.columns[j].bounds.lo
                                     = SpecBounds(left, entry.columns[j].column).lo
                               /\ entry.columns[j].bounds.hi
                                     = SpecBounds(left, entry.columns[j].column).hi
                /\ cleaner.pc = "cleaned" =>
                      /\ \A r \in kept : \A j \in 1..Len(entry.columns) :
                            Within(r, entry.columns[j].column, entry.columns[j].bounds)
                      /\ kept = Survivors(entry, Len(entry.columns))

\* The open filter removed a row that lies within the close and volume bounds
\* computed later, and the symbol retained rows.
C13_Witness ==
    /\ cleaner.pc = "cleaned"
    /\ \E k \in 1..Len(cleaner.bounds) :
          LET entry == cleaner.bounds[k]
          IN  /\ \E r \in Survivors(entry, 0) \ Survivors(entry, 1) :
                    \A j \in 4..5 :
                        Within(r, entry.columns[j].column, entry.columns[j].bounds)
              /\ Survivors(entry, 5) # {}
              /\ \E r \in Range(cleaner.rows) : r.symbol = entry.symbol

----------------------------------------------------------------------------
(* C18: the clean/normalize stage on a missing file or an empty result. *)

\* clean_data has run and retained no row of any symbol.
NoRowsAfterCleaning ==
    /\ cleaner.pc \notin {"start", "loaded"}
    /\ raw_file.readable
    /\ \A k \in 1..Len(cleaner.bounds) :
          Survivors(cleaner.bounds[k], Len(cleaner.bounds[k].columns)) = {}

\* C18: when the raw file cannot be loaded or no rows remain after cleaning,
\* the stage logs an error and aborts before normalization, and writes none of
\* its output files.
C18_AbortsOnEmpty ==
    ((cleaner.pc # "start" /\ ~raw_file.readable) \/ NoRowsAfterCleaning) =>
        /\ cleaner.pc = "aborted"
        /\ cleaner.errors # << >>
        /\ cleaner.scalers = << >>
        /\ cleaner.written = {}

----------------------------------------------------------------------------
(* C14: predictions back on the original scale. *)

\* v is p * scale + mean for the standard scaler sc fitted on a column with
\* n values, sum of values sum and sum of squares sumsq: mean = sum / n and
\* scale^2 = sumsq / n - mean^2, or scale = 1 when that is 0. Said with
\* squares: v - mean has the sign of p and (v - mean)^2 = p^2 * scale^2.
IsInverseOf(v, sc, p) ==
    LET dev == v.num * sc.n - sc.sum * v.den
        var == sc.n * sc.sumsq - sc.sum * sc.sum
    IN  /\ v.den > 0
        /\ IF var = 0 THEN dev = p * sc.n * v.den
           ELSE /\ dev * dev = p * p * var * v.den * v.den
                /\ (dev > 0) = (p > 0)
                /\ (dev < 0) = (p < 0)

\* values are the raw close predictions, each under the inverse formula of
\* the scaler sc
AllInverseOf(values, sc, raw) ==
    /\ Len(values) = Len(raw)
    /\ \A i \in 1..Len(raw) : IsInverseOf(values[i], sc, raw[i])

\* the evaluator's stored predictions for the symbol of visit k
StoredPredictions(k) ==
    LET e == CHOOSE e \in Range(evaluator.evaluation_results) :
                 e.symbol = evaluator.visited[k].symbol
    IN  e.predictions

\* the evaluator inverse-transformed predictions of visit k with a known scaler
EvaluatorScaled(k) ==
    /\ evaluator.visited[k].raw # << >>
    /\ ~evaluator.scalers.is_none
    /\ evaluator.visited[k].symbol \in DOMAIN evaluator.scalers.dict

\* the CLI inverse-transformed its predictions with a known scaler
CliScaled ==
    /\ cli.pc \notin {"idle", "start", "model_loaded", "tokenizer_loaded", "scalers_loaded"}
    /\ cli.raw # << >>
    /\ cli.symbol \in DOMAIN cli.scalers

\* C14: when a scaler for the symbol is known, inverse_transform_predictions
\* (of the evaluator and of the CLI) maps each predicted close value p to
\* p * scale + mean of that symbol's 'close' scaler.
C14_InverseFormula ==
    /\ evaluator.pc # "idle" =>
          \A k \in 1..Len(evaluator.visited) :
              EvaluatorScaled(k) =>
                  AllInverseOf(StoredPredictions(k),
                               evaluator.scalers.dict[evaluator.visited[k].symbol]["close"],
                               evaluator.visited[k].raw)
    /\ CliScaled =>
          /\ ~cli.result.predictions.raw
          /\ AllInverseOf(cli.result.predictions.values,
                          cli.scalers[cli.symbol]["close"], cli.raw)

\* The evaluator has stored predictions of symbol A on the original scale, a
\* nonzero prediction among them, while it also holds scalers of symbol B and
\* A's scalers of other columns, which would all give another value.
C14_Witness ==
    /\ evaluator.pc = "returned"
    /\ \E k \in 1..Len(evaluator.visited) :
          /\ EvaluatorScaled(k)
          /\ evaluator.visited[k].symbol = "A"
          /\ "B" \in DOMAIN evaluator.scalers.dict
          /\ \E i \in 1..Len(evaluator.visited[k].raw) :
                /\ evaluator.visited[k].raw[i] # 0
                /\ \A s \in {"A", "B"}, c \in Range(ScaledColumns) :
                      <<s, c>> # <<"A", "close">> =>
                          ~IsInverseOf(StoredPredictions(k)[i],
                                       evaluator.scalers.dict[s][c],
                                       evaluator.visited[k].raw[i])

----------------------------------------------------------------------------
(* C15: fewer rows than the requested sequence length. *)

\* the rows of the symbol in a DataFrame, as a set
BarsOf(df, symbol) == {r \in Range(df) : r.symbol = symbol}

\* the evaluator's visit k met a symbol with some rows, but fewer than the
\* sequence length, and nothing outside the data failed
EvaluatorShort(k) ==
    LET v == evaluator.visited[k]
        rows == BarsOf(evaluator.test_data, v.symbol)
    IN  /\ v.fails = "none"
        /\ rows # {}
        /\ Cardinality(rows) < evaluator.sequence_length

\* the CLI prepared its input from some rows, but fewer than the sequence
\* length
CliShort ==
    /\ cli.pc \notin {"idle", "start", "model_loaded", "tokenizer_loaded", "scalers_loaded"}
    /\ cli.prepared
    /\ Len(cli.history) < cli.sequence_length

\* the failures of the CLI that come from outside the data
OutsideFailures ==
    {"load_model", "load_tokenizer", "load_scalers", "download", "predict", "print",
     "save_predictions"}

\* C15: with at least one row but fewer than sequence_length, input preparation
\* does not fail: the window is non-empty and made of the available rows, a
\* warning is logged, and the run goes on.
C15_ShortHistory ==
    /\ evaluator.pc # "idle" =>
          \A k \in 1..Len(evaluator.visited) :
              EvaluatorShort(k) =>
                  LET v == evaluator.visited[k]
                  IN  /\ v.prepared
                      /\ v.recent_data # << >>
                      /\ Range(v.recent_data) = BarsOf(evaluator.test_data, v.symbol)
                      /\ \E w \in Range(evaluator.warnings) :
                            w.symbol = v.symbol /\ w.message = "Not enough data"
                      /\ v.error # "IndexError"
    /\ CliShort =>
          /\ cli.recent_data # << >>
          /\ {r.timestamp : r \in Range(cli.recent_data)}
                \subseteq {r.timestamp : r \in Range(cli.history)}
          /\ "Not enough data" \in Range(cli.warnings)
          /\ Range(cli.errors) \subseteq OutsideFailures \cup {"TypeError"}

----------------------------------------------------------------------------
(* C17: the exit status of the prediction CLI. *)

\* C17: the CLI exits with a non-zero status whenever a step raised an error,
\* and with status zero only after the report was printed and, when --output
\* was given, the result file was written.
C17_ExitStatus ==
    cli.pc = "exited" =>
        /\ cli.errors # << >> => cli.exit_status # 0
        /\ cli.exit_status = 0 =>
              /\ cli.errors = << >>
              /\ cli.report_printed
              /\ cli.output => cli.file_written

\* A run with --output has ended with status zero.
C17_Witness ==
    /\ cli.pc = "exited"
    /\ cli.exit_status = 0
    /\ cli.output
    /\ cli.file_written

----------------------------------------------------------------------------
(* C16: a failing symbol in a batch loop. *)

\* the symbols of the download loop whose download succeeded
Downloaded ==
    {downloader.visited[k].symbol : k \in
        {k \in 1..Len(downloader.visited) :
            /\ ~downloader.visited[k].outcome.raises
            /\ downloader.visited[k].outcome.history # << >>}}

\* the symbols of the evaluation loop whose pass raised nothing
Evaluated ==
    {evaluator.visited[k].symbol : k \in
        {k \in 1..Len(evaluator.visited) : evaluator.visited[k].error = "none"}}

\* the symbols of the download loop whose own file could not be written
WriteFailed ==
    {downloader.visited[k].symbol : k \in
        {k \in 1..Len(downloader.visited) : downloader.visited[k].write_fails}}

\* the symbols the download loop has visited, in the order of the visits
DownloadVisits == [k \in 1..Len(downloader.visited) |-> downloader.visited[k].symbol]

\* the combined dataset and the symbols' own files hold downloaded symbols only
OnlyDownloaded ==
    /\ {r.symbol : r \in Range(downloader.combined.rows)} \subseteq Downloaded
    /\ downloader.individual_files \subseteq Downloaded

\* in evaluate_model every symbol is visited and only symbols whose pass
\* raised nothing have an entry
EvaluationSkipsFailures ==
    evaluator.pc = "returned" =>
        /\ [k \in 1..Len(evaluator.visited) |-> evaluator.visited[k].symbol]
               = evaluator.symbols
        /\ {e.symbol : e \in Range(evaluator.evaluation_results)} \subseteq Evaluated

\* C16: in the loops of the download stage and of evaluate_model a symbol that
\* fails is skipped: when the loop has ended, every symbol of the list was
\* visited, in order, and the combined dataset / evaluation_results has
\* entries only for symbols that were processed successfully.
C16_FailuresSkipped ==
    /\ downloader.pc \in {"done", "raised"} =>
          /\ DownloadVisits = NSE_STOCKS
          /\ OnlyDownloaded
    /\ EvaluationSkipsFailures

\* C16 as amended: a symbol whose download fails (the service raises or has
\* no data) and, in evaluate_model, a symbol whose pass raises is skipped and
\* the symbols after it are still visited; the results have entries only for
\* symbols processed successfully. Only a write that fails ends the download
\* stage early: the failed write of a downloaded symbol's own file ends it
\* right after that symbol, the failed write of the combined file after the
\* last symbol, and in both cases there is no combined dataset.
C16_DownloadFailuresSkipped ==
    /\ downloader.pc \in {"downloading", "done", "raised"} =>
          /\ OnlyDownloaded
          /\ DownloadVisits = SubSeq(NSE_STOCKS, 1, downloader.position)
          /\ downloader.pc = "downloading" => WriteFailed = {}
          /\ downloader.pc = "done" =>
                /\ DownloadVisits = NSE_STOCKS
                /\ WriteFailed = {}
                /\ downloader.combined.written <=> Downloaded # {}
          /\ downloader.pc = "raised" =>
                /\ ~downloader.combined.written
                /\ \/ /\ WriteFailed = {DownloadVisits[Len(DownloadVisits)]}
                      /\ WriteFailed \subseteq Downloaded
                   \/ /\ WriteFailed = {}
                      /\ DownloadVisits = NSE_STOCKS
                      /\ Downloaded # {}
    /\ EvaluationSkipsFailures

\* The download stage has finished; the first symbol's download raised, the
\* second had no data, and the combined dataset has rows of a later symbol.
C16_Witness ==
    /\ downloader.pc = "done"
    /\ downloader.visited[1].outcome.raises
    /\ ~downloader.visited[2].outcome.raises
    /\ downloader.visited[2].outcome.history = << >>
    /\ \E r \in Range(downloader.combined.rows) : r.symbol = NSE_STOCKS[Len(NSE_STOCKS)]

----------------------------------------------------------------------------
(* C19: the tokenization stage on a missing file or without training pairs. *)

\* the processed file was loaded and no symbol has enough rows for a pair
NoTrainingPairs ==
    /\ tokenize_main.input.readable
    /\ \A s \in {r.symbol : r \in Range(tokenize_main.input.rows)} :
          Cardinality({r \in Range(tokenize_main.input.rows) : r.symbol = s})
              < EnoughRows

\* C19: when the processed file cannot be loaded or no training pair can be
\* built, the tokenization stage never writes the tokenized-data file and
\* never reports success.
C19_AbortsOnEmpty ==
    (tokenize_main.pc # "idle"
       /\ (~tokenize_main.input.readable \/ NoTrainingPairs)) =>
        /\ "tokenized_data.pkl" \notin tokenize_main.written
        /\ ~tokenize_main.completed
        /\ tokenize_main.pc # "done"

----------------------------------------------------------------------------
(* C20: the checkpoints of fine_tune. *)

\* the positions of the log with the given entry
PositionsOf(entry) == {p \in 1..Len(tuner.log) : tuner.log[p] = entry}

\* the positions of the log where a checkpoint of the given kind is saved
SavesOf(kind) ==
    {p \in 1..Len(tuner.log) : tuner.log[p].event = "save" /\ tuner.log[p].kind = kind}

\* C20: the checkpoint of epoch k is written after epoch k's training and
\* validation and before epoch k+1 starts; when fine_tune returns (epochs =
\* N >= 1) there is exactly one per-epoch checkpoint for each k in 1..N, one
\* final checkpoint, and a training history with N training and N validation
\* losses.
C20_Checkpoints ==
    tuner.pc # "idle" =>
        /\ \A p \in SavesOf("epoch") :
              LET k == tuner.log[p].number
              IN  /\ \E t \in PositionsOf(Called("train", k)) :
                        \E v \in PositionsOf(Called("validate", k)) : t < v /\ v < p
                  /\ \A q \in PositionsOf(Called("train", k + 1)) : p < q
        /\ \A q \in 1..Len(tuner.log) :
              (tuner.log[q].event = "train" /\ tuner.log[q].number > 1) =>
                  \E p \in PositionsOf(Saved("epoch", tuner.log[q].number - 1)) : p < q
        /\ tuner.pc = "returned" =>
              /\ \A k \in 1..tuner.epochs :
                    Cardinality(PositionsOf(Saved("epoch", k))) = 1
              /\ \A p \in SavesOf("epoch") : tuner.log[p].number \in 1..tuner.epochs
              /\ Cardinality(SavesOf("final")) = 1
              /\ tuner.history_file.exists
              /\ Len(tuner.history_file.train_loss) = tuner.epochs
              /\ Len(tuner.history_file.val_loss) = tuner.epochs

\* fine_tune has returned after MaxEpochs epochs; the validation loss improved
\* in the first epoch only.
C20_Witness ==
    /\ tuner.pc = "returned"
    /\ tuner.epochs = MaxEpochs
    /\ Cardinality(SavesOf("best")) = 1
    /\ Cardinality(SavesOf("epoch")) = MaxEpochs

----------------------------------------------------------------------------
(* C21: the checkpoint of the best model. *)

\* the order of validation losses: NaN is neither below nor above anything
Below(a, b) == ~a.nan /\ ~b.nan /\ a.value < b.value
AtMost(a, b) == ~a.nan /\ ~b.nan /\ a.value <= b.value

\* the validation losses of the epochs completed so far
ValLossesSoFar == tuner.history.val_loss

\* the files of the given kind in the save directory
FilesOf(kind) == {f \in Range(tuner.files) : f.name.kind = kind}

\* epoch k (counted from 1) is the earliest completed epoch whose validation
\* loss is the minimum of the losses in among
EarliestMinimum(k, among) ==
    /\ k \in among
    /\ \A j \in among :
          /\ AtMost(ValLossesSoFar[k], ValLossesSoFar[j])
          /\ j < k => Below(ValLossesSoFar[k], ValLossesSoFar[j])

\* the best checkpoint exists and holds the model state and the validation
\* loss of epoch k
BestHolds(k) ==
    \E f \in FilesOf("best") :
        /\ f.checkpoint.model_state = k
        /\ f.checkpoint.val_loss = ValLossesSoFar[k]

\* C21 as stated: after every completed epoch the best checkpoint exists and
\* holds the state and val_loss of the earliest epoch whose validation loss is
\* the minimum over all completed epochs.
C21_BestCheckpoint ==
    (tuner.pc # "idle" /\ ValLossesSoFar # << >>) =>
        \E k \in 1..Len(ValLossesSoFar) :
            EarliestMinimum(k, 1..Len(ValLossesSoFar)) /\ BestHolds(k)

\* the completed epochs whose validation loss is a number below infinity
Comparable ==
    {k \in 1..Len(ValLossesSoFar) : Below(ValLossesSoFar[k], Num(Infinity))}

\* C21, amended: once a completed epoch has a validation loss that is a number
\* below infinity, the best checkpoint exists and holds the state and val_loss
\* of the earliest epoch whose loss is the minimum of those losses; before
\* that there is no best checkpoint. An epoch that is not strictly lower
\* never overwrites it.
C21_BestCheckpointComparable ==
    tuner.pc # "idle" =>
        /\ Comparable = {} => FilesOf("best") = {}
        /\ Comparable # {} =>
              /\ Cardinality(FilesOf("best")) = 1
              /\ \E k \in Comparable : EarliestMinimum(k, Comparable) /\ BestHolds(k)

\* Three epochs are complete: the first validation loss was NaN, the second
\* and third were equal, and the best checkpoint is the second epoch's.
C21_Witness ==
    /\ Len(ValLossesSoFar) = 3
    /\ ValLossesSoFar[1].nan
    /\ ~ValLossesSoFar[2].nan
    /\ ValLossesSoFar[2] = ValLossesSoFar[3]
    /\ Below(ValLossesSoFar[2], Num(Infinity))
    /\ BestHolds(2)

-----------------------------------------------------------------------------
(* C22: the epoch field of the checkpoints. *)

\* the number of training epochs that were complete when the checkpoint was
\* written: the number of train_epoch passes its model state has been through
EpochsCompleted(checkpoint) == checkpoint.model_state

\* C22: every checkpoint written by fine_tune, best, per-epoch or final,
\* reports as "trained for N epochs" the number of epochs that had been
\* completed when it was written.
C22_EpochField ==
    \A f \in Range(tuner.files) :
        load_model_trained_for(f.checkpoint) = EpochsCompleted(f.checkpoint)

\* fine_tune returned after three epochs, the best checkpoint being the first
\* epoch's: it is reported as trained for 0 epochs.
C22_Witness ==
    /\ tuner.pc = "returned"
    /\ tuner.epochs = 3
    /\ \E f \in FilesOf("best") :
          EpochsCompleted(f.checkpoint) = 1 /\ load_model_trained_for(f.checkpoint) = 0
    /\ \E f \in FilesOf("final") : load_model_trained_for(f.checkpoint) = 3

-----------------------------------------------------------------------------
(* C23: the split of load_data. *)

\* the pairs of the file, in order
FilePairs ==
    [i \in 1..Len(tuner.file.input_sequences) |->
        [input |-> tuner.file.input_sequences[i],
         target |-> tuner.file.target_sequences[i]]]

\* the pairs a dataset serves, in order
DatasetPairs(dataset) ==
    [i \in 1..Len(dataset.input_sequences) |->
        [input |-> dataset.input_sequences[i], target |-> dataset.target_sequences[i]]]

\* the pair a loader took last
ItemPair == [input |-> tuner.item.input, target |-> tuner.item.target]

\* the training set is the first floor(0.8 * N) pairs and the validation set
\* the remaining ones, and a loader's item is a pair of the file
SplitAsSpecified ==
    LET N == Len(FilePairs)
        first == (4 * N) \div 5
    IN  /\ Len(tuner.train_dataset.input_sequences) = first
        /\ Len(tuner.train_dataset.target_sequences) = first
        /\ Len(tuner.val_dataset.input_sequences) = N - first
        /\ Len(tuner.val_dataset.target_sequences) = N - first
        /\ DatasetPairs(tuner.train_dataset) = SubSeq(FilePairs, 1, first)
        /\ DatasetPairs(tuner.val_dataset) = SubSeq(FilePairs, first + 1, N)
        /\ tuner.item.dataset = "train" => ItemPair = FilePairs[tuner.item.idx + 1]
        /\ tuner.item.dataset = "val" =>
              ItemPair = FilePairs[first + tuner.item.idx + 1]

\* C23 as stated: load_data of a file of N pairs returns the training set of
\* the first floor(0.8 * N) pairs and the validation set of the remaining
\* ones: the two sets share no pair, cover every pair once, and every input
\* is served with its own target.
C23_Split ==
    (tuner.pc \in {"loaded", "raised"} /\ tuner.file.readable) =>
        tuner.pc = "loaded" /\ SplitAsSpecified

\* C23, amended: for N >= 2 pairs, where floor(0.8 * N) >= 1, load_data
\* returns that split; for N < 2 the training set would be empty and
\* load_data raises ValueError, returning no split.
C23_SplitNonEmpty ==
    (tuner.pc \in {"loaded", "raised"} /\ tuner.file.readable) =>
        IF Len(FilePairs) >= 2
        THEN tuner.pc = "loaded" /\ SplitAsSpecified
        ELSE tuner.pc = "raised" /\ tuner.error = "ValueError"

\* Five pairs, not all alike, were split four to one and the validation
\* loader took its one item.
C23_Witness ==
    /\ tuner.pc = "loaded"
    /\ Len(tuner.file.input_sequences) = 5
    /\ Len(tuner.train_dataset.input_sequences) = 4
    /\ tuner.file.input_sequences[4] # tuner.file.input_sequences[5]
    /\ tuner.item.dataset = "val"
    /\ tuner.item.input = tuner.file.input_sequences[5]
    /\ tuner.item.target = tuner.file.target_sequences[5]

-----------------------------------------------------------------------------
(* C24: the prediction dates. *)

\* the dates of the calendar around the dates tried
Calendar ==
    UNION {{<<y, m, d>> : d \in 1..DaysInMonth(y, m)} :
              y \in FirstYear..(FirstYear + 2), m \in 1..12}

\* a is an earlier day than b
EarlierDay(a, b) ==
    \/ a[1] < b[1]
    \/ a[1] = b[1] /\ a[2] < b[2]
    \/ a[1] = b[1] /\ a[2] = b[2] /\ a[3] < b[3]

\* the day is a Saturday or a Sunday
Weekend(a) == weekday([year |-> a[1], month |-> a[2], day |-> a[3]]) \in {5, 6}

\* b is the first weekday after a
FirstWeekdayAfter(a, b) ==
    /\ EarlierDay(a, b)
    /\ ~Weekend(b)
    /\ \A x \in Calendar : (EarlierDay(a, x) /\ EarlierDay(x, b)) => Weekend(x)

\* C24: generate_prediction_dates returns exactly steps dates, each a weekday
\* and the first weekday after the one before it, the first one being the
\* first weekday after last_date, whatever weekday last_date is; so the dates
\* increase strictly and all come after last_date.
C24_PredictionDates ==
    cli.pc = "dated" =>
        LET dates == cli.prediction_dates
            last == <<cli.last_date.year, cli.last_date.month, cli.last_date.day>>
        IN  /\ Len(dates) = cli.steps
            /\ \A i \in 1..Len(dates) :
                  /\ dates[i] \in Calendar
                  /\ EarlierDay(last, dates[i])
                  /\ ~Weekend(dates[i])
                  /\ FirstWeekdayAfter(IF i = 1 THEN last ELSE dates[i - 1], dates[i])
            /\ \A i, j \in 1..Len(dates) : i < j => EarlierDay(dates[i], dates[j])

\* Six dates were asked for after Saturday 2024-12-28: they run from Monday
\* 2024-12-30 over the turn of the year to Monday 2025-01-06.
C24_Witness ==
    /\ cli.pc = "dated"
    /\ cli.last_date = [year |-> 2024, month |-> 12, day |-> 28]
    /\ cli.steps = 6
    /\ cli.prediction_dates[1] = <<2024, 12, 30>>
    /\ cli.prediction_dates[3] = <<2025, 1, 1>>
    /\ cli.prediction_dates[6] = <<2025, 1, 6>>

-----------------------------------------------------------------------------
(* C25: the actual values of evaluate_model. *)

\* the input window evaluate_model prepared for the symbol
WindowOf(symbol) ==
    UNION {Range(v.recent_data) :
              v \in {w \in Range(evaluator.visited) : w.symbol = symbol /\ w.prepared}}

\* the closes of the symbol's rows that come after every row of the window,
\* oldest first, at most prediction_steps of them
ClosesAfterWindow(symbol) ==
    LET later == SelectSeq(evaluator.test_data,
                           LAMBDA r : /\ r.symbol = symbol
                                      /\ \A w \in WindowOf(symbol) :
                                            w.timestamp < r.timestamp)
        sorted == SortSeq(later, LAMBDA a, b : a.timestamp < b.timestamp)
    IN  [i \in 1..Min2(evaluator.prediction_steps, Len(sorted)) |-> sorted[i].close]

\* C25: the actual values stored for a symbol are the closes of the rows that
\* come chronologically right after the input window, and never the close of
\* a row of the window.
C25_ActualValuesFollowWindow ==
    evaluator.pc # "idle" =>
        \A e \in Range(evaluator.evaluation_results) :
            /\ e.actual_values = ClosesAfterWindow(e.symbol)
            /\ \A i \in 1..Len(e.actual_values) :
                  \A w \in WindowOf(e.symbol) : w.close # e.actual_values[i]

\* Three rows of A stored newest first, a window of one row: the label of the
\* newest row is 0, and the actual values are the closes at positions 1 and 2
\* of the sorted rows, the second being the window's own row.
C25_Witness ==
    /\ evaluator.pc # "idle"
    /\ Cardinality(BarsOf(evaluator.test_data, "A")) = 3
    /\ evaluator.sequence_length = 1
    /\ \E e \in Range(evaluator.evaluation_results) :
          /\ e.symbol = "A"
          /\ Len(e.actual_values) = 2
          /\ \E w \in WindowOf("A") : w.close = e.actual_values[2]
          /\ ClosesAfterWindow("A") = << >>

-----------------------------------------------------------------------------
(* C26: the composite tokens and the vocabulary. *)

\* the tokens the last transform call returned
TokensReturned ==
    UNION {Range(last_transform.result.token_sequences[k]) :
              k \in 1..Len(last_transform.result.token_sequences)}

\* the token is an index into a vocabulary of vocab_size entries
InVocabulary(token) ==
    /\ Len(token) <= Len(BigOf(vocab_size))
    /\ BigToInt(token) < vocab_size

\* C26: every composite token transform returns lies in [0, vocab_size), for
\* the configured n_bins and the feature columns of main().
C26_TokensInVocabulary ==
    Transformed => \A token \in TokensReturned : InVocabulary(token)

\* transform ran as main() configures it, with 1000 bins, a vocabulary of
\* 10000 and all 16 columns fitted, and returned a token that is no index
\* into the vocabulary.
C26_Witness ==
    /\ Transformed
    /\ n_bins = MainBins
    /\ vocab_size = MainVocabSize
    /\ DOMAIN last_transform.discretizers = Range(MainFeatureColumns)
    /\ \E token \in TokensReturned : ~InVocabulary(token)

-----------------------------------------------------------------------------
(* C27: the sequence length of the result. *)

\* predict_symbol returned a result
HasResult == cli.pc \notin {"idle", "dates", "dated"} /\ cli.result.symbol # ""

\* C27: the sequence_length of the result of predict_symbol is the number of
\* rows of the input window given to the model, and that number is the
\* requested sequence_length when the downloaded history has at least as many
\* rows.
C27_SequenceLength ==
    HasResult =>
        /\ cli.result.sequence_length = Len(cli.recent_data)
        /\ Len(cli.history) >= cli.sequence_length =>
              Len(cli.recent_data) = cli.sequence_length

\* 21 bars were downloaded and 21 asked for: the result reports 21 while the
\* window given to the model had the 2 rows that dropna() left.
C27_Witness ==
    /\ HasResult
    /\ Len(cli.history) = 21
    /\ cli.sequence_length = 21
    /\ cli.result.sequence_length = 21
    /\ Len(cli.recent_data) = 2

-----------------------------------------------------------------------------
(* C28: the features of inference and of training. *)

\* two quotients are the same number
SameNumber(a, b) == a.num * b.den = b.num * a.den

\* two feature rows agree in every represented column
SameFeatures(r, q) ==
    /\ SameNumber(r.close, q.close)
    /\ SameNumber(r.sma_5, q.sma_5)
    /\ SameNumber(r.sma_20, q.sma_20)

\* C28: every row of the feature window that the CLI builds from the raw
\* rows with the training run's scalers is the row of the processed
\* training dataset with the same timestamp, feature by feature.
C28_SameFeatures ==
    cli.pc = "prepared" =>
        \A r \in Range(cli.input_sequence) :
            \E q \in Range(cleaner.enhanced) :
                q.symbol = r.symbol /\ q.timestamp = r.timestamp /\ SameFeatures(r, q)

\* The CLI prepared a window whose last row has the close of the processed
\* dataset's row of the same timestamp, scaled, and an sma_5 and sma_20 that
\* are those of the raw closes and differ from the dataset's.
C28_Witness ==
    /\ cli.pc = "prepared"
    /\ \E r \in Range(cli.input_sequence) :
          \E q \in Range(cleaner.enhanced) :
              /\ q.timestamp = r.timestamp
              /\ SameNumber(r.close, q.close)
              /\ ~SameNumber(r.sma_5, q.sma_5)
              /\ ~SameNumber(r.sma_20, q.sma_20)
              /\ r.sma_5.num > 100 * r.sma_5.den

-----------------------------------------------------------------------------
(* C29: the shape of the CLI's predictions. *)

\* the entries of result['predictions']
PredictionEntries ==
    IF cli.result.predictions.raw THEN cli.result.predictions.rows
    ELSE cli.result.predictions.values

\* C29: with or without a scaler for the symbol, result['predictions'] has
\* one entry per predicted row, as many as result['prediction_dates'], and
\* every entry is a single number and not a row of features.
C29_FlatPredictions ==
    HasResult =>
        /\ Len(PredictionEntries) = cli.steps
        /\ Len(PredictionEntries) = Len(cli.result.prediction_dates)
        /\ ~cli.result.predictions.raw

\* The scalers file has no scaler for symbol B: the result's predictions are
\* the rows of the network's output, 16 features each, one per date, and the
\* report fails on formatting the first of them.
C29_Witness ==
    /\ HasResult
    /\ cli.symbol = "B"
    /\ cli.scalers # << >>
    /\ "B" \notin DOMAIN cli.scalers
    /\ cli.result.predictions.raw
    /\ Len(PredictionEntries) = Len(cli.result.prediction_dates)
    /\ Len(PredictionEntries[1]) = Len(MainFeatureColumns)
    /\ cli.pc = "exited"
    /\ cli.exit_status = 1
    /\ "TypeError" \in Range(cli.errors)

====
